---- MODULE Spec2Model ----
(***************************************************************************)
(* Game analysis pipeline of chess-coach: StockfishAnalyzer.analyze_game   *)
(* (stockfish_analyzer.py) driven by the analyze_games request handler     *)
(* (app.py), with the Stockfish engine as an external oracle.              *)
(*                                                                         *)
(* Abstractions.  A position is the sequence of moves that led to it from  *)
(* the starting position: "m" is the move the game record plays there,     *)
(* "alt" another move, "r" a reply in an off-game line.  board.fen() of    *)
(* a position is the position itself.  Evaluations are integers in         *)
(* centipawns.  The engine's answers are chosen nondeterministically; when *)
(* the oracle is deterministic every answer is remembered and repeated.    *)
(* An engine that fails stays unavailable for the rest of the request.     *)
(*                                                                         *)
(* Specifications.  Spec: one request that finds at most one game, with    *)
(* any engine.  SpecBatch: one request that finds up to MaxGames games of  *)
(* one move list, with a deterministic engine.  SpecPure: the pure         *)
(* functions applied to inputs drawn from bounded sets.  SpecReport,       *)
(* SpecDirect, SpecBoard and SpecRace are introduced where they are        *)
(* defined; in SpecRace the variables req, session and run hold one entry  *)
(* for each of two overlapping requests.                                   *)
(***************************************************************************)
EXTENDS Integers, Sequences, FiniteSets, TLC

VARIABLES
    games,          \* Game rows as committed: id -> [plies, color, analyzed]
    dbErrors,       \* Error rows as committed
    session,        \* db.session: pending Error rows and analyzed flags
    req,            \* the analyze_games request: its locals and position
    run,            \* the analyze_game call in progress: its locals
    sf,             \* the Stockfish object: current position, process alive
    oracle,         \* the engine: deterministic or not, answers given so far
    traffic,        \* requests sent to the engine by the current run
    lost_in,        \* the game during whose analysis the engine was lost, or 0
    analysis_progress, \* app.py's process-wide progress entry of the user
    probe           \* input and output of a pure function under test

vars == <<games, dbErrors, session, req, run, sf, oracle, traffic, lost_in,
          analysis_progress, probe>>

(***************************************************************************)
(* Bounds of the model.                                                    *)
(***************************************************************************)
MaxGames == 2
MaxPlies == 2
MaxMate == 4
MaxLoss == 320

(***************************************************************************)
(* Program constants.                                                      *)
(***************************************************************************)
BLUNDER_THRESHOLD == 300
MISTAKE_THRESHOLD == 100
INACCURACY_THRESHOLD == 50
MATE_BASE == 10000
MATE_STEP == 100

NoMove == "None"
Cp(v) == [type |-> "cp", value |-> v]
Mate(n) == [type |-> "mate", value |-> n]

(***************************************************************************)
(* The oracle's answers.                                                   *)
(***************************************************************************)
Scores == {Cp(0), Cp(40), Cp(100), Mate(1)}

IsMainline(pos) == \A i \in 1..Len(pos) : pos[i] = "m"

\* A position the game record continues from has a legal move.
BestMoves(pos) ==
    IF IsMainline(pos) /\ Len(pos) < MaxPlies THEN {"m", "alt"} ELSE {NoMove, "r"}

Domain(kind, pos) == IF kind = "eval" THEN Scores ELSE BestMoves(pos)

Answers(o, kind, pos) ==
    IF o.deterministic /\ <<kind, pos>> \in DOMAIN o.memo
    THEN {o.memo[<<kind, pos>>]}
    ELSE Domain(kind, pos)

Remember(o, kind, pos, ans) ==
    IF o.deterministic
    THEN [o EXCEPT !.memo = (<<kind, pos>> :> ans) @@ o.memo]
    ELSE o

(***************************************************************************)
(* StockfishAnalyzer: pure helpers.                                        *)
(***************************************************************************)
\* _get_evaluation, the normalisation of the engine's evaluation
get_evaluation(evaluation) ==
    IF evaluation.type = "cp" THEN evaluation.value
    ELSE IF evaluation.type = "mate"
         THEN IF evaluation.value > 0
              THEN MATE_BASE - evaluation.value * MATE_STEP
              ELSE (0 - MATE_BASE) + evaluation.value * MATE_STEP
         ELSE 0

\* _get_mate_in: the mate distance of an evaluation, 0 standing for None
get_mate_in(evaluation) ==
    IF evaluation.type = "mate" THEN evaluation.value ELSE 0

\* mutant: the thresholds compared with > instead of >=
classify_error_strict(centipawn_loss) ==
    IF centipawn_loss > BLUNDER_THRESHOLD THEN "blunder"
    ELSE IF centipawn_loss > MISTAKE_THRESHOLD THEN "mistake"
    ELSE "inaccuracy"

\* _classify_error
classify_error(centipawn_loss) ==
    IF centipawn_loss >= BLUNDER_THRESHOLD THEN "blunder"
    ELSE IF centipawn_loss >= MISTAKE_THRESHOLD THEN "mistake"
    ELSE "inaccuracy"

\* mutant: every move that loses anything is recorded
is_error_any_loss(centipawn_loss) == centipawn_loss > 0

\* analyze_game, "Check if this is an error": the gate before _classify_error
is_error(centipawn_loss) == centipawn_loss >= INACCURACY_THRESHOLD

\* the severity of a move: none when no record is made
classify(centipawn_loss) ==
    IF is_error(centipawn_loss) THEN classify_error(centipawn_loss) ELSE "none"

\* board.turn of a position reached from the standard starting position
turn(board) == IF Len(board) % 2 = 0 THEN "white" ELSE "black"

\* mutant: the side to move is not looked at
is_player_move_any_turn(player_color, board) ==
    player_color = "white" \/ player_color = "black"

\* analyze_game: is_player_move
is_player_move(player_color, board) ==
    \/ player_color = "white" /\ turn(board) = "white"
    \/ player_color = "black" /\ turn(board) # "white"

\* mutant: the negation applied to the other colour
reframe_if_white(player_color, eval) ==
    IF player_color = "white" THEN 0 - eval ELSE eval

\* analyze_game: "Negate if black"
reframe(player_color, eval) == IF player_color = "black" THEN 0 - eval ELSE eval

\* analyze_game: centipawn_loss = int(eval_before - eval_after)
loss_of(eval_before, eval_after) == eval_before - eval_after

\* analyze_game lines 104-120 for one ply: both evaluations normalised, reframed,
\* and the centipawn loss
assess(player_color, raw_before, raw_after) ==
    LET eval_before == reframe(player_color, get_evaluation(raw_before))
        eval_after == reframe(player_color, get_evaluation(raw_after))
    IN  [eval_before |-> eval_before,
         eval_after |-> eval_after,
         centipawn_loss |-> loss_of(eval_before, eval_after)]

\* round(eval / 100, 2): pawns as a decimal with two places
round_pawns(eval) == [pawns |-> eval \div 100, hundredths |-> eval % 100]

\* f"{loss_in_pawns:.1f}": tenths of a pawn (the model's losses are no ties)
format_1f(centipawn_loss) == (centipawn_loss + 5) \div 10

\* mutant: the position is not sent, the engine keeps the one it had
set_fen_stale(current, fen_before) == current

\* stockfish.set_fen_position before the pre-move queries (line 102)
set_fen_before(current, fen_before) == fen_before

(***************************************************************************)
(* _generate_description.  The text is a function of the facts gathered;   *)
(* it is kept as the tuple of those facts.                                 *)
(***************************************************************************)
\* "Check for missed mate": mate_before and 0 < mate_before <= 3
missed_mate(mate_before) ==
    IF mate_before # 0 /\ mate_before > 0 /\ mate_before <= 3 THEN mate_before ELSE 0

\* the explanation built inside the try block
explanation(fen_before, player_move, best_move, reply, mate_before, centipawn_loss) ==
    [kind |-> "explained",
     missed_mate |-> missed_mate(mate_before),
     fen |-> fen_before,
     player_move |-> player_move,
     best_move |-> best_move,
     reply |-> reply,
     severe |-> centipawn_loss >= 300,
     loss_1f |-> format_1f(centipawn_loss),
     move_number |-> 0]

\* the except branch: "Fehler in Zug {move_number}. Verlust: ..."
fallback(move_number, centipawn_loss) ==
    [kind |-> "fallback",
     missed_mate |-> 0,
     fen |-> <<>>,
     player_move |-> "",
     best_move |-> "",
     reply |-> "",
     severe |-> FALSE,
     loss_1f |-> format_1f(centipawn_loss),
     move_number |-> move_number]

\* analyze_game: the error dictionary appended to errors
error_record(c, description) ==
    [move_number |-> c.move_number,
     fen |-> c.fen_before,
     player_move |-> "m",
     best_move |-> c.best_move,
     evaluation_before |-> round_pawns(c.eval_before),
     evaluation_after |-> round_pawns(c.eval_after),
     centipawn_loss |-> c.centipawn_loss,
     error_type |-> classify_error(c.centipawn_loss),
     description |-> description]

(***************************************************************************)
(* State of a run and of a request.                                        *)
(***************************************************************************)
NoLocals ==
    [move_number |-> 0, fen_before |-> <<>>, best_move |-> NoMove,
     raw_before |-> Cp(0), raw_after |-> Cp(0),
     eval_before |-> 0, eval_after |-> 0, centipawn_loss |-> 0,
     reply |-> NoMove]

NoRun ==
    [player_color |-> "none", plies |-> 0, board |-> <<>>, errors |-> <<>>,
     cur |-> NoLocals]

NoProgress == [present |-> FALSE, current |-> 0, total |-> 0, percent |-> 0,
               current_action |-> "none", errors_found |-> 0]

NoProbe == [fn |-> "none", in |-> <<>>, out |-> <<>>, done |-> FALSE]

Colors == {"white", "black", "none"}

GameRows == [plies : 0..MaxPlies, color : Colors, analyzed : {FALSE}]

\* the state before a request: the Game rows and the kind of engine
Start(rows, kinds) ==
    /\ games = rows
    /\ dbErrors = <<>>
    /\ session = [errors |-> <<>>, analyzed |-> {}]
    /\ req = [pc |-> "idle", batch |-> <<>>, idx |-> 0, analyzed_count |-> 0,
              total_errors |-> 0, response |-> "none"]
    /\ run = NoRun
    /\ sf = [position |-> <<>>, alive |-> FALSE]
    /\ \E d \in kinds : oracle = [deterministic |-> d, memo |-> <<>>]
    /\ traffic = {}
    /\ lost_in = 0
    /\ analysis_progress = NoProgress

\* a request that finds at most one game, with any engine
Init ==
    /\ \E n \in 0..1 : \E rows \in [1..n -> GameRows] : Start(rows, BOOLEAN)
    /\ probe = NoProbe

\* a request that finds up to MaxGames games of one move list, the user playing
\* either colour or none in each, with a deterministic engine
InitBatch ==
    /\ \E n \in 0..MaxGames : \E plies \in 0..MaxPlies :
        \E rows \in [1..n -> {r \in GameRows : r.plies = plies}] : Start(rows, {TRUE})
    /\ probe = NoProbe

(***************************************************************************)
(* analyze_games (app.py).                                                 *)
(***************************************************************************)
RECURSIVE Unanalyzed(_, _)
\* Game.query.filter_by(user_id=..., analyzed=False).all(), in id order
Unanalyzed(g, i) ==
    IF i > Len(g) THEN <<>>
    ELSE (IF g[i].analyzed THEN <<>> ELSE <<i>>) \o Unanalyzed(g, i + 1)

\* the query finds nothing: 'Alle Spiele bereits analysiert!'
NothingToAnalyze ==
    /\ req.pc = "idle"
    /\ Unanalyzed(games, 1) = <<>>
    /\ req' = [req EXCEPT !.pc = "done", !.response = "nothing"]
    /\ UNCHANGED <<games, dbErrors, session, run, sf, oracle, traffic, lost_in,
                   analysis_progress, probe>>

\* the query finds games and StockfishAnalyzer() starts the engine
StartRequest ==
    /\ req.pc = "idle"
    /\ Unanalyzed(games, 1) # <<>>
    /\ req' = [req EXCEPT !.pc = "loop", !.batch = Unanalyzed(games, 1)]
    /\ sf' = [position |-> <<>>, alive |-> TRUE]
    /\ UNCHANGED <<games, dbErrors, session, run, oracle, traffic, lost_in,
                   analysis_progress, probe>>

\* StockfishAnalyzer() raises FileNotFoundError: answered without a rollback
EngineNotFound ==
    /\ req.pc = "idle"
    /\ Unanalyzed(games, 1) # <<>>
    /\ req' = [req EXCEPT !.pc = "failed", !.response = "engine_not_found",
                          !.batch = Unanalyzed(games, 1)]
    /\ UNCHANGED <<games, dbErrors, session, run, sf, oracle, traffic, lost_in,
                   analysis_progress, probe>>

\* analysis_progress[progress_key] = {...} at the top of the loop over the games
ProgressAt(idx, total, errors) ==
    [present |-> TRUE, current |-> idx, total |-> total,
     percent |-> (idx * 100) \div total,
     current_action |-> "Analysiere Spiel", errors_found |-> errors]

\* a game whose headers do not name the user: continue
SkipGame ==
    /\ req.pc = "loop"
    /\ req.idx < Len(req.batch)
    /\ games[req.batch[req.idx + 1]].color = "none"
    /\ req' = [req EXCEPT !.idx = @ + 1]
    /\ analysis_progress' = ProgressAt(req.idx + 1, Len(req.batch), req.total_errors)
    /\ UNCHANGED <<games, dbErrors, session, run, sf, oracle, traffic, lost_in, probe>>

\* the colour is determined and analyzer.analyze_game(game.pgn, player_color) is entered
BeginGame ==
    /\ req.pc = "loop"
    /\ req.idx < Len(req.batch)
    /\ LET game == games[req.batch[req.idx + 1]] IN
        /\ game.color # "none"
        /\ run' = [NoRun EXCEPT !.player_color = game.color, !.plies = game.plies]
    /\ req' = [req EXCEPT !.idx = @ + 1, !.pc = "ply"]
    /\ analysis_progress' =
         [ProgressAt(req.idx + 1, Len(req.batch), req.total_errors)
            EXCEPT !.current_action = "Stockfish analysiert Spiel"]
    /\ traffic' = {}
    /\ UNCHANGED <<games, dbErrors, session, sf, oracle, lost_in, probe>>

(***************************************************************************)
(* analyze_game (stockfish_analyzer.py): the loop over the plies.          *)
(***************************************************************************)
\* mutant: the loop enters one ply past the end of the move list
AtPly_past_the_end == req.pc = "ply" /\ Len(run.board) <= run.plies

AtPly == req.pc = "ply" /\ Len(run.board) < run.plies

Sent(ply, kinds) == traffic \cup {[kind |-> k, ply |-> ply] : k \in kinds}

\* the exception leaves analyze_game and reaches analyze_games' except branch:
\* db.session.rollback() and the 500 answer
Abort ==
    /\ req' = [req EXCEPT !.pc = "failed", !.response = "error"]
    /\ session' = [errors |-> <<>>, analyzed |-> {}]
    /\ sf' = [sf EXCEPT !.alive = FALSE]
    /\ lost_in' = IF lost_in = 0 THEN req.batch[req.idx] ELSE lost_in

\* not the player's move: board.push(move); continue
SkipPly ==
    /\ AtPly
    /\ ~is_player_move(run.player_color, run.board)
    /\ run' = [run EXCEPT !.board = Append(@, "m")]
    /\ UNCHANGED <<games, dbErrors, session, req, sf, oracle, traffic, lost_in,
                   analysis_progress, probe>>

\* lines 99-104: set_fen_position(fen_before), get_best_move(), _get_evaluation()
QueryBefore ==
    /\ AtPly
    /\ is_player_move(run.player_color, run.board)
    /\ sf.alive
    /\ LET fen_before == run.board
           at == set_fen_before(sf.position, fen_before) IN
        \E best_move \in Answers(oracle, "best", at) :
        \E evaluation \in Answers(oracle, "eval", at) :
            /\ sf' = [sf EXCEPT !.position = at]
            /\ oracle' = Remember(Remember(oracle, "best", at, best_move),
                                  "eval", at, evaluation)
            /\ run' = [run EXCEPT !.cur =
                         [NoLocals EXCEPT !.move_number = Len(run.board) + 1,
                                          !.fen_before = fen_before,
                                          !.best_move = best_move,
                                          !.raw_before = evaluation,
                                          !.eval_before = get_evaluation(evaluation)]]
    /\ traffic' = Sent(Len(run.board) + 1, {"set_position", "best_move", "evaluation"})
    /\ req' = [req EXCEPT !.pc = "before"]
    /\ UNCHANGED <<games, dbErrors, session, lost_in, analysis_progress, probe>>

\* the engine fails in lines 102-104
QueryBeforeFails ==
    /\ AtPly
    /\ is_player_move(run.player_color, run.board)
    /\ Abort
    /\ traffic' = Sent(Len(run.board) + 1, {"set_position"})
    /\ UNCHANGED <<games, dbErrors, run, oracle, analysis_progress, probe>>

\* lines 107-124: board.push(move), set_fen_position(fen_after), _get_evaluation(),
\* the reframing, the centipawn loss and the test for an error
QueryAfter ==
    /\ req.pc = "before"
    /\ sf.alive
    /\ LET fen_after == Append(run.board, "m") IN
        \E evaluation \in Answers(oracle, "eval", fen_after) :
            LET a == assess(run.player_color, run.cur.raw_before, evaluation)
            IN  /\ sf' = [sf EXCEPT !.position = fen_after]
                /\ oracle' = Remember(oracle, "eval", fen_after, evaluation)
                /\ traffic' = Sent(run.cur.move_number, {"set_position", "evaluation"})
                /\ run' = [run EXCEPT !.board = fen_after,
                                      !.cur.raw_after = evaluation,
                                      !.cur.eval_before = a.eval_before,
                                      !.cur.eval_after = a.eval_after,
                                      !.cur.centipawn_loss = a.centipawn_loss]
                /\ req' = [req EXCEPT !.pc = IF is_error(a.centipawn_loss)
                                             THEN "describe" ELSE "ply"]
    /\ UNCHANGED <<games, dbErrors, session, lost_in, analysis_progress, probe>>

\* the engine fails in lines 111-112
QueryAfterFails ==
    /\ req.pc = "before"
    /\ Abort
    /\ traffic' = Sent(run.cur.move_number, {"set_position"})
    /\ run' = [run EXCEPT !.board = Append(@, "m")]
    /\ UNCHANGED <<games, dbErrors, oracle, analysis_progress, probe>>

(***************************************************************************)
(* _generate_description and _analyze_tactical_consequences: the engine is *)
(* asked again, inside the try block of _generate_description.             *)
(***************************************************************************)
\* except Exception in _generate_description: the fallback text is returned, the
\* record is appended and the loop goes on
Swallow ==
    /\ run' = [run EXCEPT !.errors =
                 Append(@, error_record(run.cur,
                                        fallback(run.cur.move_number,
                                                 run.cur.centipawn_loss)))]
    /\ req' = [req EXCEPT !.pc = "ply"]
    /\ sf' = [sf EXCEPT !.alive = FALSE]
    /\ lost_in' = IF lost_in = 0 THEN req.batch[req.idx] ELSE lost_in
    /\ traffic' = Sent(run.cur.move_number, {"set_position"})

\* line 700: _analyze_tactical_consequences(board, player_move_obj, ...): the
\* opponent's best reply to the move played
ConsequencesOfMove ==
    /\ req.pc = "describe"
    /\ sf.alive
    /\ LET board_after == Append(run.cur.fen_before, "m") IN
        \E opponent_response \in Answers(oracle, "best", board_after) :
            /\ sf' = [sf EXCEPT !.position = board_after]
            /\ oracle' = Remember(oracle, "best", board_after, opponent_response)
            /\ run' = [run EXCEPT !.cur.reply = opponent_response]
    /\ traffic' = Sent(run.cur.move_number, {"set_position", "best_move"})
    /\ req' = [req EXCEPT !.pc = "describe_best"]
    /\ UNCHANGED <<games, dbErrors, session, lost_in, analysis_progress, probe>>

\* line 703: _analyze_tactical_consequences(board, best_move_obj, ...): its
\* result is not used by the text
ConsequencesOfBest ==
    /\ req.pc = "describe_best"
    /\ sf.alive
    /\ LET board_after == Append(run.cur.fen_before, run.cur.best_move) IN
        \E opponent_response \in Answers(oracle, "best", board_after) :
            /\ sf' = [sf EXCEPT !.position = board_after]
            /\ oracle' = Remember(oracle, "best", board_after, opponent_response)
    /\ traffic' = Sent(run.cur.move_number, {"set_position", "best_move"})
    /\ req' = [req EXCEPT !.pc = "describe_mate"]
    /\ UNCHANGED <<games, dbErrors, session, run, lost_in, analysis_progress, probe>>

\* lines 709-828 and 126-144: _get_mate_in(fen_before), the text, errors.append
ComposeAndAppend ==
    /\ req.pc = "describe_mate"
    /\ sf.alive
    /\ \E evaluation \in Answers(oracle, "eval", run.cur.fen_before) :
        /\ sf' = [sf EXCEPT !.position = run.cur.fen_before]
        /\ oracle' = Remember(oracle, "eval", run.cur.fen_before, evaluation)
        /\ run' = [run EXCEPT !.errors =
                     Append(@, error_record(run.cur,
                                 explanation(run.cur.fen_before, "m",
                                             run.cur.best_move, run.cur.reply,
                                             get_mate_in(evaluation),
                                             run.cur.centipawn_loss)))]
    /\ traffic' = Sent(run.cur.move_number, {"set_position", "evaluation"})
    /\ req' = [req EXCEPT !.pc = "ply"]
    /\ UNCHANGED <<games, dbErrors, session, lost_in, analysis_progress, probe>>

\* the engine fails while the text is composed
DescriptionFails ==
    /\ req.pc \in {"describe", "describe_best", "describe_mate"}
    /\ Swallow
    /\ UNCHANGED <<games, dbErrors, session, oracle, analysis_progress, probe>>

\* end of the move list: return errors
ReturnErrors ==
    /\ req.pc = "ply"
    /\ Len(run.board) = run.plies
    /\ req' = [req EXCEPT !.pc = "returned"]
    /\ UNCHANGED <<games, dbErrors, session, run, sf, oracle, traffic, lost_in,
                   analysis_progress, probe>>

(***************************************************************************)
(* analyze_games: saving, commit.                                          *)
(***************************************************************************)
\* Error(game_id=..., ...) for one record of analyze_game
error_row(game_id, error_data) == [game_id |-> game_id, data |-> error_data]

\* lines 1021-1046: the records are added to the session, the game is marked
SaveErrors ==
    /\ req.pc = "returned"
    /\ LET game_id == req.batch[req.idx] IN
        /\ session' = [errors |-> session.errors \o
                          [i \in 1..Len(run.errors) |-> error_row(game_id, run.errors[i])],
                       analyzed |-> session.analyzed \cup {game_id}]
        /\ req' = [req EXCEPT !.pc = "loop",
                              !.analyzed_count = @ + 1,
                              !.total_errors = @ + Len(run.errors)]
        /\ analysis_progress' =
             [analysis_progress EXCEPT !.current_action = "Speichere Fehler",
                                       !.errors_found = req.total_errors + Len(run.errors)]
    /\ UNCHANGED <<games, dbErrors, run, sf, oracle, traffic, lost_in, probe>>

\* lines 1048-1060: db.session.commit(), the progress entry is deleted
Commit ==
    /\ req.pc = "loop"
    /\ req.idx = Len(req.batch)
    /\ games' = [g \in DOMAIN games |->
                   IF g \in session.analyzed THEN [games[g] EXCEPT !.analyzed = TRUE]
                   ELSE games[g]]
    /\ dbErrors' = dbErrors \o session.errors
    /\ session' = [errors |-> <<>>, analyzed |-> {}]
    /\ analysis_progress' = NoProgress
    /\ req' = [req EXCEPT !.pc = "done", !.response = "ok"]
    /\ UNCHANGED <<run, sf, oracle, traffic, lost_in, probe>>

Next ==
    \/ NothingToAnalyze
    \/ StartRequest
    \/ EngineNotFound
    \/ SkipGame
    \/ BeginGame
    \/ SkipPly
    \/ QueryBefore
    \/ QueryBeforeFails
    \/ QueryAfter
    \/ QueryAfterFails
    \/ ConsequencesOfMove
    \/ ConsequencesOfBest
    \/ ComposeAndAppend
    \/ DescriptionFails
    \/ ReturnErrors
    \/ SaveErrors
    \/ Commit

Spec == Init /\ [][Next]_vars

SpecBatch == InitBatch /\ [][Next]_vars

(***************************************************************************)
(* The pure functions, applied to inputs drawn from bounded sets.          *)
(***************************************************************************)
Abs(x) == IF x < 0 THEN 0 - x ELSE x

Mates == {Mate(n) : n \in (0 - MaxMate)..MaxMate}

ProbeScores == {Cp(v) : v \in {-300, -60, 0, 60, 300}} \cup Mates

\* the engine's evaluation of the same position seen from the other side
negated(score) == [score EXCEPT !.value = 0 - @]

\* what analyze_game derives for one ply from the two evaluations
ply_outcome(player_color, raw_before, raw_after) ==
    LET a == assess(player_color, raw_before, raw_after) IN
    [evaluation_before |-> round_pawns(a.eval_before),
     evaluation_after |-> round_pawns(a.eval_after),
     centipawn_loss |-> a.centipawn_loss,
     error_type |-> classify(a.centipawn_loss)]

ProbeInputs ==
    {[fn |-> "classify", in |-> <<l>>, out |-> <<>>, done |-> FALSE] :
        l \in (0 - MaxLoss)..MaxLoss}
    \cup {[fn |-> "evaluation", in |-> <<e>>, out |-> <<>>, done |-> FALSE] :
        e \in Mates \cup {Cp(v) : v \in (0 - MaxLoss)..MaxLoss}}
    \cup {[fn |-> "mates", in |-> <<Mate(n1), Mate(n2)>>, out |-> <<>>, done |-> FALSE] :
        n1 \in (0 - MaxMate)..MaxMate, n2 \in (0 - MaxMate)..MaxMate}
    \cup {[fn |-> "framing", in |-> <<b, a>>, out |-> <<>>, done |-> FALSE] :
        b \in ProbeScores, a \in ProbeScores}

InitPure ==
    /\ Start(<<>>, {TRUE})
    /\ probe \in ProbeInputs

Idle == UNCHANGED <<games, dbErrors, session, req, run, sf, oracle, traffic,
                    lost_in, analysis_progress>>

\* the severity of a centipawn loss
ProbeClassify ==
    /\ probe.fn = "classify" /\ ~probe.done
    /\ probe' = [probe EXCEPT !.out = <<classify(probe.in[1])>>, !.done = TRUE]
    /\ Idle

\* the normalisation of one evaluation
ProbeEvaluation ==
    /\ probe.fn = "evaluation" /\ ~probe.done
    /\ probe' = [probe EXCEPT !.out = <<get_evaluation(probe.in[1])>>, !.done = TRUE]
    /\ Idle

\* the normalisation of two mate scores
ProbeMates ==
    /\ probe.fn = "mates" /\ ~probe.done
    /\ probe' = [probe EXCEPT !.out = <<get_evaluation(probe.in[1]),
                                        get_evaluation(probe.in[2])>>,
                              !.done = TRUE]
    /\ Idle

\* one ply analysed for White, and for Black with every evaluation negated
ProbeFraming ==
    /\ probe.fn = "framing" /\ ~probe.done
    /\ probe' = [probe EXCEPT
                   !.out = <<ply_outcome("white", probe.in[1], probe.in[2]),
                             ply_outcome("black", negated(probe.in[1]),
                                         negated(probe.in[2]))>>,
                   !.done = TRUE]
    /\ Idle

NextPure == ProbeClassify \/ ProbeEvaluation \/ ProbeMates \/ ProbeFraming

SpecPure == InitPure /\ [][NextPure]_vars

(***************************************************************************)
(* Properties of the pure functions (SpecPure).                            *)
(***************************************************************************)
Probed(fn) == probe.fn = fn /\ probe.done

\* C1: for every centipawn loss L the severity is blunder iff L >= 300, mistake
\* iff 100 <= L < 300, inaccuracy iff 50 <= L < 100 and none iff L < 50; the
\* values 50, 100 and 300 belong to the higher category.
C1_Classification ==
    Probed("classify") =>
        LET L == probe.in[1]
            c == probe.out[1]
        IN  /\ (c = "blunder") <=> (L >= 300)
            /\ (c = "mistake") <=> (100 <= L /\ L < 300)
            /\ (c = "inaccuracy") <=> (50 <= L /\ L < 100)
            /\ (c = "none") <=> (L < 50)

C1_Witness ==
    /\ Probed("classify")
    /\ probe.in[1] = 300
    /\ probe.out[1] = "blunder"

\* C6: mate in N is mapped to 10000 - 100*N when N > 0 and to -10000 - 100*N
\* when N < 0, for every non-zero N; a centipawn score is returned unchanged.
C6_MateMapping ==
    Probed("evaluation") =>
        LET e == probe.in[1]
            N == e.value
        IN  /\ e.type = "cp" => probe.out[1] = e.value
            /\ e.type = "mate" /\ N > 0 => probe.out[1] = 10000 - 100 * N
            /\ e.type = "mate" /\ N < 0 => probe.out[1] = (0 - 10000) - 100 * N

\* C7: of two mate scores of the same sign the deeper one is mapped to a value of
\* smaller magnitude, on the winning and on the losing side, and every mate-derived
\* value lies outside the range of the ordinary centipawn evaluations.
C7_MateOrdering ==
    Probed("mates") =>
        LET n1 == probe.in[1].value
            n2 == probe.in[2].value
        IN  /\ n1 * n2 > 0 /\ Abs(n1) > Abs(n2) => Abs(probe.out[1]) < Abs(probe.out[2])
            /\ n1 # 0 => Abs(probe.out[1]) > MaxLoss

\* C10: sign symmetry: a ply analysed for the second mover with every evaluation
\* of the oracle negated gives the same evaluation before, evaluation after,
\* centipawn loss and severity as for the first mover, mate scores included.
C10_SignSymmetry ==
    Probed("framing") => probe.out[1] = probe.out[2]

(***************************************************************************)
(* Properties of the pipeline (Spec) and of a request (SpecBatch).         *)
(***************************************************************************)
\* the last analysed ply has been evaluated before and after the move (a request
\* that failed may have stopped between the two)
Assessed ==
    /\ run.cur.move_number # 0
    /\ Len(run.board) >= run.cur.move_number
    /\ req.pc # "failed"

\* the centipawns of a value kept in pawns with two decimals
Centipawns(p) == p.pawns * 100 + p.hundredths

\* C2: every record of the result list has centipawn_loss >= 50, a severity tag
\* that is the classification of that loss, and a loss that is the evaluation
\* before minus the evaluation after; an analysed move whose loss is below 50 or
\* negative has no record.
C2_RecordsAreErrors ==
    /\ \A i \in 1..Len(run.errors) :
        LET r == run.errors[i] IN
        /\ r.centipawn_loss >= 50
        /\ r.centipawn_loss =
             Centipawns(r.evaluation_before) - Centipawns(r.evaluation_after)
        /\ r.error_type = IF r.centipawn_loss >= 300 THEN "blunder"
                          ELSE IF r.centipawn_loss >= 100 THEN "mistake"
                          ELSE "inaccuracy"
    /\ Assessed /\ run.cur.eval_before - run.cur.eval_after < 50 =>
         \A i \in 1..Len(run.errors) : run.errors[i].move_number # run.cur.move_number

C2_Witness ==
    /\ req.pc = "returned"
    /\ Len(run.errors) = 1
    /\ run.errors[1].centipawn_loss = 60
    /\ run.errors[1].error_type = "inaccuracy"

\* C3 (as stated): the pre-move score, taken with the analysed player to move, is
\* kept and the post-move score, taken with the opponent to move, is negated, for
\* either colour; the centipawn loss is the first minus the second.
C3_SideToMoveReframing ==
    Assessed =>
        /\ run.cur.eval_before = get_evaluation(run.cur.raw_before)
        /\ run.cur.eval_after = 0 - get_evaluation(run.cur.raw_after)
        /\ run.cur.centipawn_loss = run.cur.eval_before - run.cur.eval_after

\* C3 (amended): both the pre-move and the post-move score are negated exactly
\* when the analysed player is Black, and kept when the analysed player is White;
\* the centipawn loss is the reframed pre-move score minus the reframed post-move
\* score.
C3_ColourReframing ==
    Assessed =>
        LET sign == IF run.player_color = "black" THEN 0 - 1 ELSE 1 IN
        /\ run.cur.eval_before = sign * get_evaluation(run.cur.raw_before)
        /\ run.cur.eval_after = sign * get_evaluation(run.cur.raw_after)
        /\ run.cur.centipawn_loss = run.cur.eval_before - run.cur.eval_after

C3_Witness ==
    /\ Assessed
    /\ run.player_color = "black"
    /\ run.cur.raw_before = Cp(40)
    /\ run.cur.raw_after = Cp(100)
    /\ run.cur.eval_before = 0 - 40
    /\ run.cur.eval_after = 0 - 100
    /\ run.cur.centipawn_loss = 60

\* C4: a run in which some oracle call failed, be it an evaluation before or after
\* the move or a query made while the explanation is composed, never returns a
\* list of records.
C4_FailureAborts ==
    req.pc = "returned" => lost_in # req.batch[req.idx]

\* C5: if the oracle becomes unavailable while a game is analysed, then after the
\* request has ended that game is still unanalysed and none of its records is
\* persisted.
C5_FailedGameUnanalyzed ==
    req.pc \in {"done", "failed"} /\ lost_in # 0 =>
        /\ ~games[lost_in].analyzed
        /\ \A i \in 1..Len(dbErrors) : dbErrors[i].game_id # lost_in

\* C8: every request sent to the oracle during a run belongs to a ply on which the
\* analysed player is to move, and to a ply that has been reached.
C8_NoTrafficOnOpponentPly ==
    \A t \in traffic :
        /\ \/ run.player_color = "white" /\ t.ply % 2 = 1
           \/ run.player_color = "black" /\ t.ply % 2 = 0
        /\ t.ply <= Len(run.board) + 1
        /\ t.ply <= run.plies

C8_Witness ==
    /\ req.pc = "returned"
    /\ run.player_color = "black"
    /\ Len(run.board) = 2
    /\ [kind |-> "evaluation", ply |-> 2] \in traffic
    /\ [kind |-> "best_move", ply |-> 2] \in traffic

\* the records of a game, saved in the session or committed
RecordsOf(g) ==
    LET OfGame(row) == row.game_id = g
        rows == SelectSeq(dbErrors \o session.errors, OfGame)
    IN  [i \in 1..Len(rows) |-> rows[i].data]

Saved(g) == g \in session.analyzed \/ games[g].analyzed

\* C9: with a deterministic oracle two runs on the same game and the same
\* analysed colour produce identical sequences of records, field by field, the
\* explanation included.
C9_Idempotence ==
    oracle.deterministic /\ lost_in = 0 =>
        \A g1 \in DOMAIN games, g2 \in DOMAIN games :
            /\ Saved(g1) /\ Saved(g2)
            /\ games[g1].plies = games[g2].plies
            /\ games[g1].color = games[g2].color
            => RecordsOf(g1) = RecordsOf(g2)

C9_Witness ==
    /\ oracle.deterministic /\ lost_in = 0
    /\ Len(games) >= 2
    /\ Saved(1) /\ Saved(2)
    /\ games[1].plies = games[2].plies
    /\ games[1].color = games[2].color
    /\ Len(RecordsOf(1)) >= 1
    /\ RecordsOf(1)[1].description.kind = "explained"
    /\ RecordsOf(1) = RecordsOf(2)

(***************************************************************************)
(* The reporting functions of the analyzer: categorize_errors and          *)
(* get_error_statistics, applied to lists of records.                      *)
(***************************************************************************)
MaxRecords == 3

OPENING_LAST == 15

MIDDLEGAME_LAST == 40

\* the branch of the if / elif / else on move_num
phase_of(move_num) ==
    IF move_num <= OPENING_LAST THEN "opening"
    ELSE IF move_num <= MIDDLEGAME_LAST THEN "middlegame"
    ELSE "endgame"

\* the records the for loop appends to one bucket
RECURSIVE appended(_, _)
appended(errors, phase) ==
    IF errors = <<>> THEN <<>>
    ELSE (IF phase_of(Head(errors).move_number) = phase
          THEN <<Head(errors)>> ELSE <<>>) \o appended(Tail(errors), phase)

\* error['move_number'] is the index analyze_game takes from
\* enumerate(game.mainline_moves(), start=1)
categorize_errors(errors) ==
    [opening |-> appended(errors, "opening"),
     middlegame |-> appended(errors, "middlegame"),
     endgame |-> appended(errors, "endgame")]

RECURSIVE sum_centipawn_loss(_)
sum_centipawn_loss(errors) ==
    IF errors = <<>> THEN 0
    ELSE Head(errors).centipawn_loss + sum_centipawn_loss(Tail(errors))

\* sum(1 for e in errors if e['error_type'] == tag)
count_of(errors, tag) ==
    Cardinality({i \in 1..Len(errors) : errors[i].error_type = tag})

\* round(num / den, 2) in hundredths, for num >= 0 and den in 1..7, where no
\* quotient lies half way between two hundredths
round_2(num, den) == (200 * num + den) \div (2 * den)

NoStatistics ==
    [total |-> 0, blunders |-> 0, mistakes |-> 0, inaccuracies |-> 0,
     avg_centipawn_loss |-> 0]

\* the statistics with a misspelt severity tag
get_error_statistics_misspelt(errors) ==
    IF errors = <<>> THEN NoStatistics
    ELSE [total |-> Len(errors),
          blunders |-> count_of(errors, "blunder"),
          mistakes |-> count_of(errors, "mistake"),
          inaccuracies |-> count_of(errors, "inaccurate"),
          avg_centipawn_loss |-> round_2(sum_centipawn_loss(errors), Len(errors))]

\* avg_centipawn_loss is kept in hundredths of a centipawn
get_error_statistics(errors) ==
    IF errors = <<>> THEN NoStatistics
    ELSE [total |-> Len(errors),
          blunders |-> count_of(errors, "blunder"),
          mistakes |-> count_of(errors, "mistake"),
          inaccuracies |-> count_of(errors, "inaccuracy"),
          avg_centipawn_loss |-> round_2(sum_centipawn_loss(errors), Len(errors))]

\* the record analyze_game appends for a ply with this loss
record_at(move_number, centipawn_loss) ==
    error_record([NoLocals EXCEPT !.move_number = move_number,
                                  !.eval_before = centipawn_loss,
                                  !.centipawn_loss = centipawn_loss],
                 fallback(move_number, centipawn_loss))

\* _get_piece_value, in centipawns
get_piece_value(piece_type) ==
    CASE piece_type = "P" -> 100
      [] piece_type = "N" -> 300
      [] piece_type = "B" -> 300
      [] piece_type = "R" -> 500
      [] piece_type = "Q" -> 900
      [] OTHER -> 0

\* _get_piece_name
get_piece_name(piece_type) ==
    CASE piece_type = "P" -> "Bauer"
      [] piece_type = "N" -> "Springer"
      [] piece_type = "B" -> "Laeufer"
      [] piece_type = "R" -> "Turm"
      [] piece_type = "Q" -> "Dame"
      [] piece_type = "K" -> "Koenig"
      [] OTHER -> "Figur"

\* the entry of pieces_lost and of pieces_threatened for a piece on a square
piece_entry(piece_type, square) ==
    [name |-> get_piece_name(piece_type), value |-> get_piece_value(piece_type),
     square |-> square]

NoPiece == [type |-> "none", square |-> "none"]

\* the dictionary _analyze_tactical_consequences returns when the reply shows
\* the patterns opponent_patterns, captures the piece `captured` of the player
\* (NoPiece when it captures none) and leaves the pieces `threatened` attacked
\* more often than defended
consequences(opponent_patterns, captured, threatened) ==
    [material_loss |-> IF captured = NoPiece THEN 0 ELSE get_piece_value(captured.type),
     pieces_lost |-> IF captured = NoPiece THEN <<>>
                     ELSE <<piece_entry(captured.type, captured.square)>>,
     pieces_threatened |-> [i \in 1..Len(threatened) |->
                              piece_entry(threatened[i].type, threatened[i].square)],
     opponent_threats |-> opponent_patterns]

Contains(seq, x) == \E i \in 1..Len(seq) : seq[i] = x

\* a sentence of the text: its wording and the values put into it, in order
sentence(wording, values) == [wording |-> wording, values |-> values]

\* threat_messages.get(threat, ...)
threat_message(threat, player_move_readable) ==
    IF threat \in {"Gabel", "Fesselung", "Spiess", "Grundreihenmatt-Drohung",
                   "Ersticktes Matt", "Abzugsschach", "Doppelangriff"}
    THEN sentence(threat, <<player_move_readable>>)
    ELSE sentence("starke taktische Drohung", <<player_move_readable>>)

\* "What's wrong with your move?": the sentences appended by lines 735-781
what_is_wrong(your_consequences, player_move_readable) ==
    IF your_consequences.material_loss > 0
    THEN IF your_consequences.pieces_lost = <<>> THEN <<>>
         ELSE LET lost == your_consequences.pieces_lost[1] IN
              IF Contains(your_consequences.opponent_threats, "Gabel")
              THEN <<sentence("Gabel machen und gewinnen",
                              <<player_move_readable, lost.name>>)>>
              ELSE IF Contains(your_consequences.opponent_threats, "Fesselung")
              THEN <<sentence("fesseln und dann gewinnen",
                              <<player_move_readable, lost.name>>)>>
              ELSE IF Contains(your_consequences.opponent_threats,
                               "Grundreihenmatt-Drohung")
              THEN <<sentence("droht Grundreihenmatt, du verlierst",
                              <<player_move_readable, lost.name>>)>>
              ELSE <<sentence("verlierst du auf",
                              <<player_move_readable, lost.name, lost.square>>)>>
    ELSE IF your_consequences.opponent_threats # <<>>
    THEN <<threat_message(your_consequences.opponent_threats[1], player_move_readable)>>
    ELSE IF your_consequences.pieces_threatened # <<>>
    THEN LET threatened == your_consequences.pieces_threatened[1] IN
         <<sentence("steht ungedeckt und wird angegriffen",
                    <<player_move_readable, threatened.name, threatened.square>>)>>
    ELSE <<sentence("schwaecht deine Stellung", <<player_move_readable>>)>>

\* lines 99-144 for one ply of the player, the engine answering every query and
\* giving _get_mate_in the evaluation it gave before the move: the records appended
analysed_ply(player_color, raw_before, raw_after) ==
    LET a == assess(player_color, raw_before, raw_after)
        c == [NoLocals EXCEPT !.move_number = 1, !.best_move = "alt",
                              !.raw_before = raw_before, !.raw_after = raw_after,
                              !.eval_before = a.eval_before,
                              !.eval_after = a.eval_after,
                              !.centipawn_loss = a.centipawn_loss,
                              !.reply = "r"]
    IN  IF is_error(a.centipawn_loss)
        THEN <<error_record(c, explanation(<<>>, "m", "alt", "r",
                                           get_mate_in(raw_before),
                                           a.centipawn_loss))>>
        ELSE <<>>

\* "CRITICAL: Did you miss mate?" and "Should you have castled?": the lead
\* sentence, if any, about the move in readable notation
lead_sentence(mate_before, missed_castle, centipawn_loss, best_patterns, readable) ==
    IF missed_mate(mate_before) # 0
    THEN <<sentence("KRITISCH Matt in", <<missed_mate(mate_before), readable>>)>>
    ELSE IF missed_castle /\ centipawn_loss >= INACCURACY_THRESHOLD
    THEN IF Contains(best_patterns, "Rochade")
         THEN <<sentence("Koenig steht unsicher", <<readable>>)>>
         ELSE <<>>
    ELSE <<>>

\* pattern_translations.get(pattern)
pattern_translation(pattern) ==
    CASE pattern = "Gabel" -> "macht eine Gabel"
      [] pattern = "Fesselung" -> "fesselt eine gegnerische Figur"
      [] pattern = "Spiess" -> "macht einen Spiess"
      [] pattern = "Grundreihenmatt-Drohung" -> "droht Grundreihenmatt"
      [] pattern = "Ersticktes Matt" -> "droht ersticktes Matt"
      [] pattern = "Abzugsschach" -> "gibt Abzugsschach"
      [] pattern = "Doppelangriff" -> "macht einen Doppelangriff"
      [] pattern = "Linienoeffnung" -> "oeffnet eine wichtige Linie"
      [] pattern = "Qualitaetsopfer" -> "opfert die Qualitaet fuer Angriff"
      [] pattern = "Rochade" -> "bringt den Koenig in Sicherheit"
      [] OTHER -> ""

\* "Why is the best move better?": best_reasons, for the patterns of the best
\* move, the piece it captures ("none" when it captures none) and whether it
\* gives check
best_reasons(best_patterns, captured_type, gives_check) ==
    LET translated == SelectSeq([i \in 1..Len(best_patterns) |->
                                   pattern_translation(best_patterns[i])],
                                LAMBDA t : t # "")
        reasons == translated
                   \o (IF captured_type # "none"
                       THEN <<"gewinnt einen " \o get_piece_name(captured_type)>>
                       ELSE <<>>)
                   \o (IF gives_check THEN <<"gibt Schach">> ELSE <<>>)
    IN  IF reasons = <<>> THEN <<"haelt deine Position stabil">> ELSE reasons

\* "Add severity"
severity_sentence(centipawn_loss) ==
    IF centipawn_loss >= 300
    THEN sentence("grober Fehler", <<format_1f(centipawn_loss)>>)
    ELSE sentence("Verlust", <<format_1f(centipawn_loss)>>)

\* mutant: the severity is put before the sentence about the best move
explanation_parts_severity_first(f) ==
    lead_sentence(get_mate_in(f.raw_before), f.should_castle /\ ~f.castles,
                  f.centipawn_loss, f.best_patterns, f.player_move)
    \o what_is_wrong(f.your_consequences, f.player_move)
    \o <<severity_sentence(f.centipawn_loss)>>
    \o <<sentence("Besser waere",
                  <<f.best_move>> \o best_reasons(f.best_patterns, f.best_captures,
                                                  f.best_checks))>>

\* explanation_parts as _generate_description has built it before the join, from
\* the facts f it has gathered: the oracle's score of the position, the moves,
\* _should_castle, whether the move castles, the patterns, capture and check of
\* the best move and the consequences of the move
explanation_parts(f) ==
    lead_sentence(get_mate_in(f.raw_before), f.should_castle /\ ~f.castles,
                  f.centipawn_loss, f.best_patterns, f.player_move)
    \o what_is_wrong(f.your_consequences, f.player_move)
    \o <<sentence("Besser waere",
                  <<f.best_move>> \o best_reasons(f.best_patterns, f.best_captures,
                                                  f.best_checks))>>
    \o <<severity_sentence(f.centipawn_loss)>>

E_FILE == 4

EARLY_LAST == 15

\* board.fullmove_number of the position reached from the starting position by
\* the moves of a board: it starts at 1 and grows after each move of Black
fullmove_number(board) == Len(board) \div 2 + 1

\* _should_castle, for the castling rights of the player, the board and the file
\* of the player's king
should_castle(can_castle, board, king_file) ==
    /\ can_castle
    /\ ~(fullmove_number(board) > EARLY_LAST)
    /\ king_file = E_FILE

\* the position before the ply with a 1-based index
position_before(ply) == [i \in 1..(ply - 1) |-> "m"]

\* lines 88-144 for the ply with a 1-based index, played with the king on the e
\* file and losing 100 centipawns where the oracle's best move castles: the
\* move number of the record and the sentences of its explanation
record_of_ply(player_color, ply, can_castle, castles) ==
    IF ~is_player_move(player_color, position_before(ply)) THEN <<>>
    ELSE <<[move_number |-> ply,
            parts |-> explanation_parts(
                [turn |-> player_color, raw_before |-> Cp(0),
                 player_move |-> "m", best_move |-> "alt",
                 should_castle |-> should_castle(can_castle, position_before(ply),
                                                 E_FILE),
                 castles |-> castles, centipawn_loss |-> 100,
                 best_patterns |-> <<"Rochade">>, best_captures |-> "none",
                 best_checks |-> FALSE,
                 your_consequences |-> consequences(<<>>, NoPiece, <<>>)])]>>

\* the facts of the explanations composed: the side to move is the analysed
\* player
DescriptionFacts ==
    [turn : Colors,
     raw_before : {Cp(0), Mate(1), Mate(3), Mate(4), Mate(0 - 1), Mate(0 - 3)},
     player_move : {"m"},
     best_move : {"m", "alt"},
     should_castle : BOOLEAN,
     castles : BOOLEAN,
     centipawn_loss : {50, 300},
     best_patterns : {<<>>, <<"Rochade">>, <<"Gabel", "Linienoeffnung">>},
     best_captures : {"none", "N"},
     best_checks : BOOLEAN,
     your_consequences :
        {consequences(t, c, th) :
            t \in {<<>>, <<"Gabel", "Fesselung">>, <<"Linienoeffnung">>},
            c \in {NoPiece, [type |-> "Q", square |-> "d4"]},
            th \in {<<>>, <<[type |-> "N", square |-> "f3"]>>}}]

ReplyPatterns ==
    {<<>>, <<"Gabel">>, <<"Fesselung">>, <<"Spiess">>, <<"Grundreihenmatt-Drohung">>,
     <<"Gabel", "Fesselung">>, <<"Doppelangriff", "Grundreihenmatt-Drohung">>,
     <<"Linienoeffnung">>}

ReplyCaptures ==
    {NoPiece} \cup [type : {"P", "R", "Q"}, square : {"d4", "h5"}]

ReportLosses == {50, 51, 100, 300}

ReportPlies == {1, 15, 16, 29, 30, 31, 40, 41, 80, 81}

ListsOf(S) == UNION {[1..n -> S] : n \in 0..MaxRecords}

ReportInputs ==
    {[fn |-> "statistics", in |-> errors, out |-> <<>>, done |-> FALSE] :
        errors \in ListsOf({record_at(1, l) : l \in ReportLosses})}
    \cup {[fn |-> "categorize", in |-> errors, out |-> <<>>, done |-> FALSE] :
        errors \in ListsOf({record_at(n, 50) : n \in ReportPlies})}
    \cup {[fn |-> "what_is_wrong", in |-> <<consequences(t, c, th)>>, out |-> <<>>,
           done |-> FALSE] :
        t \in ReplyPatterns, c \in ReplyCaptures,
        th \in {<<>>, <<[type |-> "N", square |-> "f3"]>>}}
    \cup {[fn |-> "analysed_ply", in |-> <<color, b, a>>, out |-> <<>>, done |-> FALSE] :
        color \in {"white", "black"}, b \in ProbeScores, a \in ProbeScores}
    \cup {[fn |-> "explanation_parts", in |-> <<f>>, out |-> <<>>, done |-> FALSE] :
        f \in DescriptionFacts}
    \cup {[fn |-> "record_of_ply", in |-> <<color, n, can, castles>>, out |-> <<>>,
           done |-> FALSE] :
        color \in Colors, n \in ReportPlies, can \in BOOLEAN, castles \in BOOLEAN}

InitReport ==
    /\ Start(<<>>, {TRUE})
    /\ probe \in ReportInputs

ProbeStatistics ==
    /\ probe.fn = "statistics" /\ ~probe.done
    /\ probe' = [probe EXCEPT !.out = <<get_error_statistics(probe.in)>>,
                              !.done = TRUE]
    /\ Idle

ProbeCategorize ==
    /\ probe.fn = "categorize" /\ ~probe.done
    /\ probe' = [probe EXCEPT !.out = <<categorize_errors(probe.in)>>,
                              !.done = TRUE]
    /\ Idle

ProbeWhatIsWrong ==
    /\ probe.fn = "what_is_wrong" /\ ~probe.done
    /\ probe' = [probe EXCEPT !.out = what_is_wrong(probe.in[1], "m"),
                              !.done = TRUE]
    /\ Idle

ProbeAnalysedPly ==
    /\ probe.fn = "analysed_ply" /\ ~probe.done
    /\ probe' = [probe EXCEPT
                   !.out = analysed_ply(probe.in[1], probe.in[2], probe.in[3]),
                   !.done = TRUE]
    /\ Idle

ProbeExplanationParts ==
    /\ probe.fn = "explanation_parts" /\ ~probe.done
    /\ probe' = [probe EXCEPT !.out = explanation_parts(probe.in[1]),
                              !.done = TRUE]
    /\ Idle

ProbeRecordOfPly ==
    /\ probe.fn = "record_of_ply" /\ ~probe.done
    /\ probe' = [probe EXCEPT
                   !.out = record_of_ply(probe.in[1], probe.in[2], probe.in[3],
                                         probe.in[4]),
                   !.done = TRUE]
    /\ Idle

NextReport ==
    \/ ProbeRecordOfPly
    \/ ProbeStatistics
    \/ ProbeCategorize
    \/ ProbeWhatIsWrong
    \/ ProbeAnalysedPly
    \/ ProbeExplanationParts

SpecReport == InitReport /\ [][NextReport]_vars

(***************************************************************************)
(* Properties of the reporting functions (SpecReport).                     *)
(***************************************************************************)
\* the counts of C19: total is the number of records and the sum of the three
\* counts, each count is the number of records of that severity, and the empty
\* list gives zero everywhere
CountsAreRight(errors, stats) ==
    /\ stats.total = Len(errors)
    /\ stats.total = stats.blunders + stats.mistakes + stats.inaccuracies
    /\ stats.blunders = Cardinality({i \in 1..Len(errors) : errors[i].centipawn_loss >= 300})
    /\ stats.mistakes = Cardinality({i \in 1..Len(errors) :
                                       /\ errors[i].centipawn_loss >= 100
                                       /\ errors[i].centipawn_loss < 300})
    /\ stats.inaccuracies = Cardinality({i \in 1..Len(errors) :
                                           /\ errors[i].centipawn_loss >= 50
                                           /\ errors[i].centipawn_loss < 100})
    /\ errors = <<>> => stats = NoStatistics

\* C19 (as stated): total = number of records = blunders + mistakes +
\* inaccuracies, each count is the number of records of that severity, the average
\* centipawn loss is exactly the sum of the losses divided by total, and every
\* aggregate of the empty list is zero.
C19_ExactAverage ==
    Probed("statistics") =>
        LET errors == probe.in
            stats == probe.out[1]
        IN  /\ CountsAreRight(errors, stats)
            /\ errors # <<>> =>
                 stats.avg_centipawn_loss * stats.total = 100 * sum_centipawn_loss(errors)

\* C19 (amended): total = number of records = blunders + mistakes + inaccuracies,
\* each count is the number of records of that severity, the average centipawn
\* loss is the sum of the losses divided by total and rounded to the nearest
\* hundredth, and every aggregate of the empty list is zero.
C19_Statistics ==
    Probed("statistics") =>
        LET errors == probe.in
            stats == probe.out[1]
            n == Len(errors)
        IN  /\ CountsAreRight(errors, stats)
            /\ errors # <<>> =>
                 /\ 2 * (stats.avg_centipawn_loss * n - 100 * sum_centipawn_loss(errors)) <= n
                 /\ 2 * (100 * sum_centipawn_loss(errors) - stats.avg_centipawn_loss * n) <= n

C19_Witness ==
    /\ Probed("statistics")
    /\ Len(probe.in) = 3
    /\ probe.in[1].centipawn_loss = 50
    /\ probe.in[2].centipawn_loss = 300
    /\ probe.in[3].centipawn_loss = 51
    /\ probe.out[1] = [total |-> 3, blunders |-> 1, mistakes |-> 0, inaccuracies |-> 2,
                       avg_centipawn_loss |-> 13367]

\* the move of the game a ply belongs to: plies 1 and 2 are move 1
fullmove_of(ply) == (ply + 1) \div 2

\* C20: every record is in exactly one bucket: in opening iff its move is at or
\* before move 15 of the game, in middlegame iff after move 15 and at or before
\* move 40, in endgame iff after move 40; inside a bucket the records keep the
\* order of the result list.
C20_PhaseBuckets ==
    Probed("categorize") =>
        LET errors == probe.in
            b == probe.out[1]
            Opening(e) == fullmove_of(e.move_number) <= 15
            Middlegame(e) == 15 < fullmove_of(e.move_number)
                               /\ fullmove_of(e.move_number) <= 40
            Endgame(e) == 40 < fullmove_of(e.move_number)
        IN  /\ b.opening = SelectSeq(errors, Opening)
            /\ b.middlegame = SelectSeq(errors, Middlegame)
            /\ b.endgame = SelectSeq(errors, Endgame)

(***************************************************************************)
(* Properties of whole games (Spec).                                       *)
(***************************************************************************)
\* the position after the first k plies of the game
Mainline(k) == [i \in 1..k |-> "m"]

\* the deterministic oracle has named the move of the game as the best move of
\* the position before ply k
PlayedBest(k) ==
    /\ <<"best", Mainline(k - 1)>> \in DOMAIN oracle.memo
    /\ oracle.memo[<<"best", Mainline(k - 1)>>] = "m"

\* C11: for a game in which every move of the analysed player equals the oracle's
\* best move for its position, the pipeline returns no record, and total, blunders,
\* mistakes, inaccuracies and the average centipawn loss of the result are zero.
C11_AllBestNoRecords ==
    /\ req.pc = "returned"
    /\ oracle.deterministic
    /\ \A k \in 1..run.plies :
         is_player_move(run.player_color, Mainline(k - 1)) => PlayedBest(k)
    => /\ run.errors = <<>>
       /\ get_error_statistics(run.errors) = NoStatistics

(***************************************************************************)
(* analyze_game called directly, as test_analyzer does, with any game text *)
(* and any colour string.                                                  *)
(***************************************************************************)
\* the number of plies standing for a text chess.pgn.read_game returns None for
NoGame == 0 - 1

\* analyzer.analyze_game(pgn, player_color) is entered with a running engine
InitDirect ==
    /\ \E plies \in {NoGame} \cup 0..MaxPlies : \E color \in Colors :
        /\ games = <<[plies |-> plies, color |-> color, analyzed |-> FALSE]>>
        /\ run = [NoRun EXCEPT !.player_color = color, !.plies = plies]
    /\ dbErrors = <<>>
    /\ session = [errors |-> <<>>, analyzed |-> {}]
    /\ req = [pc |-> "ply", batch |-> <<1>>, idx |-> 1, analyzed_count |-> 0,
              total_errors |-> 0, response |-> "none"]
    /\ sf = [position |-> <<>>, alive |-> TRUE]
    /\ \E d \in BOOLEAN : oracle = [deterministic |-> d, memo |-> <<>>]
    /\ traffic = {}
    /\ lost_in = 0
    /\ analysis_progress = NoProgress
    /\ probe = NoProbe

\* if not game: return errors
ReturnNoGame ==
    /\ req.pc = "ply"
    /\ run.plies = NoGame
    /\ req' = [req EXCEPT !.pc = "returned"]
    /\ UNCHANGED <<games, dbErrors, session, run, sf, oracle, traffic, lost_in,
                   analysis_progress, probe>>

NextDirect ==
    \/ ReturnNoGame
    \/ SkipPly
    \/ QueryBefore
    \/ QueryBeforeFails
    \/ QueryAfter
    \/ QueryAfterFails
    \/ ConsequencesOfMove
    \/ ConsequencesOfBest
    \/ ComposeAndAppend
    \/ DescriptionFails
    \/ ReturnErrors

SpecDirect == InitDirect /\ [][NextDirect]_vars

(***************************************************************************)
(* Properties of the direct call (SpecDirect).                             *)
(***************************************************************************)
\* C14: for an empty or unparsable game the pipeline returns an empty list, does
\* not fail and sends no request to the oracle.
C14_EmptyGame ==
    run.plies \in {NoGame, 0} =>
        /\ req.pc \in {"ply", "returned"}
        /\ req.pc = "ply" => ENABLED (ReturnNoGame \/ ReturnErrors)
        /\ run.errors = <<>>
        /\ run.board = <<>>
        /\ traffic = {}
        /\ sf.alive

C14_Witness ==
    /\ run.plies = NoGame
    /\ run.player_color = "white"
    /\ req.pc = "returned"
    /\ run.errors = <<>>
    /\ traffic = {}

\* C15: when the colour given to the pipeline is neither of the two colours, the
\* pipeline does not walk the game and does not return a list of records as it
\* does for a game without errors: it signals a precondition failure.
C15_ColourPrecondition ==
    run.player_color \notin {"white", "black"} =>
        /\ run.board = <<>>
        /\ req.pc # "returned"

(***************************************************************************)
(* Properties of the explanation (SpecReport).                             *)
(***************************************************************************)
\* C12: whenever the reply found by the consequence simulation captures a piece
\* of the analysed player, the explanation names the lost piece and the square it
\* stood on, whether or not the reply also shows a fork, a pin or a back-rank
\* pattern; so it does for a queen left hanging.
C12_LostPieceAndSquare ==
    Probed("what_is_wrong") /\ probe.in[1].pieces_lost # <<>> =>
        LET lost == probe.in[1].pieces_lost[1] IN
        /\ Len(probe.out) = 1
        /\ Contains(probe.out[1].values, lost.name)
        /\ Contains(probe.out[1].values, lost.square)

\* C13: when the analysed player has mate in 1 before the move (the oracle's
\* score read as analyze_game reads it, from White's side), the ply gets a record
\* whose explanation starts with the missed-mate sentence and whose severity is
\* blunder, whatever the score after the move.
C13_MissedMateIsBlunder ==
    /\ Probed("analysed_ply")
    /\ \/ probe.in[1] = "white" /\ probe.in[2] = Mate(1)
       \/ probe.in[1] = "black" /\ probe.in[2] = Mate(0 - 1)
    => /\ Len(probe.out) = 1
       /\ probe.out[1].description.missed_mate = 1
       /\ probe.out[1].error_type = "blunder"
       /\ probe.out[1].centipawn_loss >= 300

(***************************************************************************)
(* The board of python-chess, as far as the detectors use it: squares      *)
(* 0..63 (a1 = 0, h1 = 7, a8 = 56), the piece on each square and the side  *)
(* to move.  Positions have no en-passant square and moves do not promote. *)
(***************************************************************************)
Squares == 0..63

square_file(square) == square % 8

square_rank(square) == square \div 8

square_at(file, rank) == rank * 8 + file

Empty == [type |-> "none", color |-> "none"]

\* the value of None for a square
NoSquare == 0 - 1

opponent(color) == IF color = "white" THEN "black" ELSE "white"

piece_at(board, square) == board.at[square]

\* the squares a sliding piece attacks in one direction: up to the first occupied
\* square, that square included
RECURSIVE ray(_, _, _, _, _)
ray(board, file, rank, df, dr) ==
    LET f == file + df
        r == rank + dr
    IN  IF f < 0 \/ f > 7 \/ r < 0 \/ r > 7 THEN {}
        ELSE IF piece_at(board, square_at(f, r)) # Empty THEN {square_at(f, r)}
        ELSE {square_at(f, r)} \cup ray(board, f, r, df, dr)

Diagonals == {<<1, 1>>, <<1, 0 - 1>>, <<0 - 1, 1>>, <<0 - 1, 0 - 1>>}

Lines == {<<1, 0>>, <<0 - 1, 0>>, <<0, 1>>, <<0, 0 - 1>>}

KnightJumps ==
    {<<1, 2>>, <<2, 1>>, <<2, 0 - 1>>, <<1, 0 - 2>>,
     <<0 - 1, 0 - 2>>, <<0 - 2, 0 - 1>>, <<0 - 2, 1>>, <<0 - 1, 2>>}

\* the squares reached by single steps from a square
steps(square, deltas) ==
    {square_at(square_file(square) + d[1], square_rank(square) + d[2]) :
        d \in {e \in deltas : /\ square_file(square) + e[1] \in 0..7
                              /\ square_rank(square) + e[2] \in 0..7}}

\* board.attacks(square): the squares attacked by the piece on the square, those
\* occupied by either colour included; empty for an empty square
attacks(board, square) ==
    LET piece == piece_at(board, square)
        rays(deltas) == UNION {ray(board, square_file(square), square_rank(square),
                                   d[1], d[2]) : d \in deltas}
    IN  CASE piece.type = "N" -> steps(square, KnightJumps)
          [] piece.type = "K" -> steps(square, Diagonals \cup Lines)
          [] piece.type = "P" ->
               steps(square, IF piece.color = "white"
                             THEN {<<1, 1>>, <<0 - 1, 1>>}
                             ELSE {<<1, 0 - 1>>, <<0 - 1, 0 - 1>>})
          [] piece.type = "B" -> rays(Diagonals)
          [] piece.type = "R" -> rays(Lines)
          [] piece.type = "Q" -> rays(Diagonals \cup Lines)
          [] OTHER -> {}

\* board.attackers(color, square)
attackers(board, color, square) ==
    {s \in Squares : piece_at(board, s).color = color /\ square \in attacks(board, s)}

is_attacked_by(board, color, square) == attackers(board, color, square) # {}

\* board.king(color): the square of the king, or None
king(board, color) ==
    LET kings == {s \in Squares : piece_at(board, s) = [type |-> "K", color |-> color]}
    IN  IF kings = {} THEN NoSquare ELSE CHOOSE s \in kings : TRUE

\* board.is_check(): the king of the side to move is attacked
is_check(board) ==
    /\ king(board, board.turn) # NoSquare
    /\ is_attacked_by(board, opponent(board.turn), king(board, board.turn))

\* board.is_capture(move): one of the two squares of the move holds a piece of the
\* side that is not to move
is_capture(board, move) ==
    \/ piece_at(board, move.to_square).color = opponent(board.turn)
    \/ piece_at(board, move.from_square).color = opponent(board.turn)

\* board.is_castling(move): a king that moves more than one file, or onto a rook
\* of the side to move
is_castling(board, move) ==
    /\ piece_at(board, move.from_square).type = "K"
    /\ \/ square_file(move.from_square) - square_file(move.to_square) > 1
       \/ square_file(move.to_square) - square_file(move.from_square) > 1
       \/ piece_at(board, move.to_square) = [type |-> "R", color |-> board.turn]

\* board.push(move): castling moves the king to the g or c file and the rook of
\* that side next to it; any other move carries the piece to its target
push(board, move) ==
    LET piece == piece_at(board, move.from_square)
        rank == square_rank(move.from_square)
        kingside == square_file(move.to_square) > square_file(move.from_square)
        rook_from == square_at(IF kingside THEN 7 ELSE 0, rank)
        rook_to == square_at(IF kingside THEN 5 ELSE 3, rank)
        king_to == square_at(IF kingside THEN 6 ELSE 2, rank)
    IN  IF is_castling(board, move)
        THEN [at |-> [s \in Squares |->
                        IF s = king_to THEN piece
                        ELSE IF s = rook_to THEN piece_at(board, rook_from)
                        ELSE IF s \in {move.from_square, rook_from} THEN Empty
                        ELSE piece_at(board, s)],
              turn |-> opponent(board.turn)]
        ELSE [at |-> [s \in Squares |->
                        IF s = move.to_square THEN piece
                        ELSE IF s = move.from_square THEN Empty
                        ELSE piece_at(board, s)],
              turn |-> opponent(board.turn)]

(***************************************************************************)
(* The detectors of StockfishAnalyzer.                                     *)
(***************************************************************************)
Valuable == {"Q", "R", "N", "B"}

Sliders == {"B", "R", "Q"}

\* the enemy pieces the attackers of _detect_fork are looked up for
enemy_squares(board, color) ==
    {s \in Squares : piece_at(board, s) # Empty /\ piece_at(board, s).color # color}

\* _detect_fork: attacker_square is not used; every enemy piece attacked by any
\* piece of attacker_color is collected
detect_fork(board, attacker_square, attacker_color) ==
    Cardinality({s \in enemy_squares(board, attacker_color) :
                   /\ is_attacked_by(board, attacker_color, s)
                   /\ piece_at(board, s).type \in Valuable}) >= 2

\* _get_direction: the step between two aligned squares, 0 standing for None
get_direction(from_sq, to_sq) ==
    LET file_diff == square_file(to_sq) - square_file(from_sq)
        rank_diff == square_rank(to_sq) - square_rank(from_sq)
    IN  IF file_diff = 0 /\ rank_diff # 0 THEN (IF rank_diff > 0 THEN 8 ELSE 0 - 8)
        ELSE IF rank_diff = 0 /\ file_diff # 0 THEN (IF file_diff > 0 THEN 1 ELSE 0 - 1)
        ELSE IF Abs(file_diff) = Abs(rank_diff) /\ file_diff # 0
        THEN (IF rank_diff > 0 THEN 8 ELSE 0 - 8) + (IF file_diff > 0 THEN 1 ELSE 0 - 1)
        ELSE 0

\* the while loop of _detect_pin and of _detect_skewer: the first occupied square
\* met from next_square on in steps of direction, while the square number stays in
\* 0..63 and no further than 7 from attacked_square; None when the loop ends
RECURSIVE look_behind(_, _, _, _)
look_behind(board, attacked_square, next_square, direction) ==
    IF next_square < 0 \/ next_square > 63 THEN NoSquare
    ELSE IF piece_at(board, next_square) # Empty THEN next_square
    ELSE IF Abs(next_square + direction - attacked_square) > 7 THEN NoSquare
    ELSE look_behind(board, attacked_square, next_square + direction, direction)

\* the squares whose piece the same loop reads, from next_square on
RECURSIVE examined(_, _, _, _)
examined(board, attacked_square, next_square, direction) ==
    IF next_square < 0 \/ next_square > 63 THEN {}
    ELSE IF piece_at(board, next_square) # Empty THEN {next_square}
    ELSE IF Abs(next_square + direction - attacked_square) > 7 THEN {next_square}
    ELSE {next_square}
           \cup examined(board, attacked_square, next_square + direction, direction)

\* the squares attacked by the slider that hold an enemy piece, each with the
\* square of the first piece the loop finds behind it
behind_pairs(board, attacker_square, attacker_color) ==
    {<<a, look_behind(board, a, a + get_direction(attacker_square, a),
                      get_direction(attacker_square, a))>> :
        a \in {s \in attacks(board, attacker_square) :
                 /\ piece_at(board, s) # Empty
                 /\ piece_at(board, s).color # attacker_color
                 /\ get_direction(attacker_square, s) # 0}}

\* _detect_pin
detect_pin(board, attacker_square, attacker_color) ==
    /\ piece_at(board, attacker_square).type \in Sliders
    /\ \E p \in behind_pairs(board, attacker_square, attacker_color) :
        /\ p[2] # NoSquare
        /\ piece_at(board, p[2]).color = piece_at(board, p[1]).color
        /\ \/ piece_at(board, p[2]).type = "K"
           \/ get_piece_value(piece_at(board, p[2]).type)
                > get_piece_value(piece_at(board, p[1]).type)

\* _detect_skewer
detect_skewer(board, attacker_square, attacker_color) ==
    /\ piece_at(board, attacker_square).type \in Sliders
    /\ \E p \in behind_pairs(board, attacker_square, attacker_color) :
        /\ p[2] # NoSquare
        /\ piece_at(board, p[2]).color = piece_at(board, p[1]).color
        /\ get_piece_value(piece_at(board, p[1]).type)
             > get_piece_value(piece_at(board, p[2]).type)

\* _detect_discovered_check; `if king_square and ...` takes square 0 for no king
detect_discovered_check(board_before, move, mover_color) ==
    LET board_after == push(board_before, move)
        king_square == king(board_after, opponent(mover_color))
    IN  /\ is_check(board_after)
        /\ piece_at(board_after, move.to_square) # Empty
        /\ ~(/\ king_square \notin {NoSquare, 0}
             /\ ~is_attacked_by(board_after, mover_color, king_square))
        /\ ~(/\ piece_at(board_after, move.to_square).type = "N"
             /\ king_square \in attacks(board_after, move.to_square))

\* _detect_double_attack
detect_double_attack(board, attacker_color) ==
    \E s \in Squares :
        /\ piece_at(board, s).color = opponent(attacker_color)
        /\ piece_at(board, s).type \in {"Q", "R"}
        /\ Cardinality(attackers(board, attacker_color, s)) >= 2

\* mutant: the squares next to the king are not looked at
detect_smothered_mate_threat_unboxed(board, target_color) ==
    /\ king(board, target_color) # NoSquare
    /\ is_check(board)
    /\ \E s \in Squares : piece_at(board, s) = [type |-> "N",
                                                color |-> opponent(target_color)]

\* _detect_smothered_mate_threat
detect_smothered_mate_threat(board, target_color) ==
    LET king_square == king(board, target_color) IN
    /\ king_square # NoSquare
    /\ \A escape_sq \in attacks(board, king_square) :
         piece_at(board, escape_sq).color = target_color
    /\ is_check(board)
    /\ \E s \in Squares : piece_at(board, s) = [type |-> "N",
                                                color |-> opponent(target_color)]
    /\ is_attacked_by(board, opponent(target_color), king_square)

\* _detect_line_opening
detect_line_opening(board_before, board_after, move, mover_color) ==
    /\ ~is_capture(board_before, move)
    /\ \E s \in Squares :
        /\ piece_at(board_after, s).color = mover_color
        /\ piece_at(board_after, s).type \in Sliders
        /\ \/ square_file(s) = square_file(move.from_square)
           \/ square_rank(s) = square_rank(move.from_square)
        /\ Cardinality(attacks(board_after, s)) > Cardinality(attacks(board_before, s))

\* _detect_exchange_sacrifice
detect_exchange_sacrifice(board, move) ==
    /\ is_capture(board, move)
    /\ piece_at(board, move.from_square) # Empty
    /\ piece_at(board, move.to_square) # Empty
    /\ piece_at(board, move.from_square).type = "R"
    /\ piece_at(board, move.to_square).type \in {"B", "N"}

\* _detect_back_rank_mate_threat
detect_back_rank_mate_threat(board, target_color) ==
    LET king_square == king(board, target_color) IN
    /\ king_square # NoSquare
    /\ square_rank(king_square) = IF target_color = "white" THEN 0 ELSE 7
    /\ \A escape_sq \in attacks(board, king_square) :
         \/ piece_at(board, escape_sq).color = target_color
         \/ is_attacked_by(board, opponent(target_color), escape_sq)
    /\ \E s \in Squares :
         /\ piece_at(board, s).color = opponent(target_color)
         /\ piece_at(board, s).type \in {"R", "Q"}
    /\ is_attacked_by(board, opponent(target_color), king_square)

\* mutant: the tag is appended whatever the detector returned
tag_if_unconditional(fired, tag) == <<tag>>

\* patterns.append(tag) when the detector fired
tag_if(fired, tag) == IF fired THEN <<tag>> ELSE <<>>

\* _detect_tactical_patterns
detect_tactical_patterns(board, move) ==
    LET board_after == push(board, move)
        piece == piece_at(board, move.from_square)
        moved_piece == piece_at(board_after, move.to_square)
        opponent_color == opponent(piece.color)
    IN  IF piece = Empty THEN <<>>
        ELSE tag_if(detect_fork(board_after, move.to_square, piece.color), "Gabel")
             \o tag_if(/\ moved_piece.type \in Sliders
                       /\ detect_pin(board_after, move.to_square, piece.color),
                       "Fesselung")
             \o tag_if(/\ moved_piece.type \in Sliders
                       /\ detect_skewer(board_after, move.to_square, piece.color),
                       "Spiess")
             \o tag_if(detect_discovered_check(board, move, piece.color), "Abzugsschach")
             \o tag_if(detect_double_attack(board_after, piece.color), "Doppelangriff")
             \o tag_if(detect_back_rank_mate_threat(board_after, opponent_color),
                       "Grundreihenmatt-Drohung")
             \o tag_if(/\ moved_piece.type = "N"
                       /\ detect_smothered_mate_threat(board_after, opponent_color),
                       "Ersticktes Matt")
             \o tag_if(detect_line_opening(board, board_after, move, piece.color),
                       "Linienoeffnung")
             \o tag_if(/\ is_capture(board, move)
                       /\ detect_exchange_sacrifice(board, move),
                       "Qualitaetsopfer")
             \o tag_if(is_castling(board, move), "Rochade")

(***************************************************************************)
(* The detectors applied to positions and moves drawn from bounded sets:   *)
(* White to move, both kings on the board, the king of the side that is    *)
(* not to move not attacked, and a move that leaves the mover's king       *)
(* unattacked.                                                             *)
(***************************************************************************)
\* how far from the attacker the aligned pieces are placed
MaxDistance == 3

\* the board holding the pieces <<square, type, color>> of a set, White to move
position(placed) ==
    [at |-> [s \in Squares |->
               IF \E p \in placed : p[1] = s
               THEN LET p == CHOOSE q \in placed : q[1] = s
                    IN  [type |-> p[2], color |-> p[3]]
               ELSE Empty],
     turn |-> "white"]

chess_move(from_square, to_square) ==
    [from_square |-> from_square, to_square |-> to_square]

\* a slider arrives on d4 with two black pieces on one of its rays, towards h8,
\* d8 or h4, at distances front < back <= far; the kings stand on b1 and, unless
\* one of the two pieces is the black king, b8
AlignedInputs(far) ==
    UNION {{<<position({<<from, slider, "white">>, <<1, "K", "white">>,
                        <<27 + front * step, f, "black">>,
                        <<27 + back * step, b, "black">>}
                       \cup (IF "K" \in {f, b} THEN {} ELSE {<<57, "K", "black">>})),
              chess_move(from, 27)>> :
               slider \in Sliders, step \in {1, 8, 9}, from \in {3, 24, 34},
               back \in (front + 1)..far,
               b \in {"P", "N", "R", "Q", "K"} \ ({f} \cap {"K"})} :
           front \in 1..far, f \in {"P", "N", "R", "Q", "K"}}

\* a knight from e2 or a queen from d1 arrives on d4 with black pieces on c6
\* and e6 (a knight's jump away) or on c5 and e5 (next to the queen), while the
\* white rook on f1 looks at f5
ForkInputs ==
    {<<position({<<mover[2], mover[1], "white">>, <<1, "K", "white">>,
                 <<5, "R", "white">>, <<57, "K", "black">>,
                 <<left, x, "black">>, <<left + 2, y, "black">>}
                \cup (IF z = "none" THEN {} ELSE {<<37, z, "black">>})),
       chess_move(mover[2], 27)>> :
        mover \in {<<"N", 12>>, <<"Q", 3>>}, left \in {34, 42},
        x \in {"Q", "R", "B", "N", "P"}, y \in {"Q", "R", "B", "N", "P"},
        z \in {"none", "N", "P", "R"}}

\* castling, a capture of a minor piece by a rook, a knight between a rook and
\* the king, a smothered king, a king behind its pawns
Middlegames ==
    {position({<<4, "K", "white">>, <<7, "R", "white">>, <<0, "R", "white">>,
               <<28, "N", "white">>, <<60, "K", "black">>, <<56, "B", "black">>,
               <<51, "Q", "black">>, <<53, "P", "black">>}),
     position({<<1, "K", "white">>, <<36, "N", "white">>, <<17, "Q", "white">>,
               <<63, "K", "black">>, <<62, "R", "black">>, <<54, "P", "black">>,
               <<55, "P", "black">>}),
     position({<<1, "K", "white">>, <<4, "R", "white">>, <<19, "Q", "white">>,
               <<63, "K", "black">>, <<54, "P", "black">>, <<55, "P", "black">>,
               <<59, "R", "black">>, <<43, "N", "black">>})}

\* the black king on h8 behind any of the rook g8 and the pawns g7 and h7, with
\* the white knight e5 and rook a1, and with or without the white queen b3
KingsideInputs ==
    {position({<<1, "K", "white">>, <<36, "N", "white">>, <<0, "R", "white">>,
               <<63, "K", "black">>}
              \cup {<<17, "Q", "white">> : q \in queen}
              \cup {<<62, "R", "black">> : r \in g8}
              \cup {<<54, "P", "black">> : p \in g7}
              \cup {<<55, "P", "black">> : p \in h7}) :
        queen \in SUBSET {1}, g8 \in SUBSET {1}, g7 \in SUBSET {1},
        h7 \in SUBSET {1}}

\* a move of a piece of the side to move other than a pawn, castling with the
\* rook on h1 included, whether or not it leaves the own king attacked
piece_move(board, move) ==
    /\ piece_at(board, move.from_square).color = board.turn
    /\ piece_at(board, move.from_square).type # "P"
    /\ \/ /\ move.to_square \in attacks(board, move.from_square)
          /\ piece_at(board, move.to_square).color # board.turn
       \/ /\ move = chess_move(4, 6)
          /\ piece_at(board, 4) = [type |-> "K", color |-> "white"]
          /\ piece_at(board, 7) = [type |-> "R", color |-> "white"]
          /\ piece_at(board, 5) = Empty /\ piece_at(board, 6) = Empty

\* a position and a move the game or the engine can hand to the detector
playable(board, move) ==
    /\ piece_move(board, move)
    /\ \A s \in Squares :
         piece_at(board, s).type = "P" => square_rank(s) \in 1..6
    /\ king(board, "white") # NoSquare /\ king(board, "black") # NoSquare
    /\ ~is_attacked_by(board, board.turn, king(board, opponent(board.turn)))
    /\ ~is_attacked_by(push(board, move), opponent(board.turn),
                       king(push(board, move), board.turn))

BoardInputs(far) ==
    {[fn |-> "patterns", in |-> i, out |-> <<>>, done |-> FALSE] :
        i \in {j \in AlignedInputs(far) \cup ForkInputs
                       \cup {<<b, m>> : b \in Middlegames \cup KingsideInputs,
                                        m \in [from_square : Squares,
                                               to_square : Squares]} :
                 playable(j[1], j[2])}}

InitBoard ==
    /\ Start(<<>>, {TRUE})
    /\ probe \in BoardInputs(MaxDistance)

\* _detect_tactical_patterns(board, move)
ProbePatterns ==
    /\ probe.fn = "patterns" /\ ~probe.done
    /\ probe' = [probe EXCEPT
                   !.out = detect_tactical_patterns(probe.in[1], probe.in[2]),
                   !.done = TRUE]
    /\ Idle

NextBoard == ProbePatterns

SpecBoard == InitBoard /\ [][NextBoard]_vars

(***************************************************************************)
(* Properties of the detectors (SpecBoard).                                *)
(***************************************************************************)
\* the position after the move of the probe, and the colour that moved
AfterMove == push(probe.in[1], probe.in[2])

Mover == piece_at(probe.in[1], probe.in[2].from_square).color

\* the enemy queens, rooks, knights and bishops the moved piece attacks from its
\* destination square
ForkTargets ==
    {s \in attacks(AfterMove, probe.in[2].to_square) :
        /\ piece_at(AfterMove, s).color = opponent(Mover)
        /\ piece_at(AfterMove, s).type \in {"Q", "R", "N", "B"}}

\* C16: the fork tag is given exactly when the moved piece itself, from its
\* destination square, attacks at least two enemy pieces that are queens, rooks,
\* knights or bishops, whatever the other pieces of the mover attack: not for one
\* queen and one pawn, but for one queen and one knight.
C16_ForkByMovedPiece ==
    Probed("patterns") =>
        (Contains(probe.out, "Gabel") <=> Cardinality(ForkTargets) >= 2)

\* the first occupied square of a ray from a square, or None
first_on_ray(board, square, delta) ==
    LET hit == {s \in ray(board, square_file(square), square_rank(square),
                          delta[1], delta[2]) : piece_at(board, s) # Empty}
    IN  IF hit = {} THEN NoSquare ELSE CHOOSE s \in hit : TRUE

\* the pairs <<f, b>> of enemy pieces standing behind each other on a ray of the
\* slider that has moved: f is the first piece of the ray, b the next one
AlignedPairs ==
    LET slider == piece_at(AfterMove, probe.in[2].to_square)
        deltas == CASE slider.type = "B" -> Diagonals
                    [] slider.type = "R" -> Lines
                    [] slider.type = "Q" -> Diagonals \cup Lines
                    [] OTHER -> {}
        front(d) == first_on_ray(AfterMove, probe.in[2].to_square, d)
        back(d) == first_on_ray(AfterMove, front(d), d)
    IN  {<<front(d), back(d)>> : d \in {e \in deltas :
            /\ front(e) # NoSquare
            /\ piece_at(AfterMove, front(e)).color = opponent(Mover)
            /\ back(e) # NoSquare
            /\ piece_at(AfterMove, back(e)).color = opponent(Mover)}}

\* C17: with one sliding attacker and two enemy pieces f (front) and b (back)
\* behind each other on one of its rays: if f is worth less than b, or b is a
\* king, the pin fires and the skewer does not; if f is worth more than b, the
\* skewer fires and the pin does not; the two never fire together.
C17_PinSkewerExclusive ==
    Probed("patterns") =>
        \A p \in AlignedPairs :
            AlignedPairs = {p} =>
                LET f == piece_at(AfterMove, p[1]).type
                    b == piece_at(AfterMove, p[2]).type
                    pin == Contains(probe.out, "Fesselung")
                    skewer == Contains(probe.out, "Spiess")
                IN  /\ get_piece_value(f) < get_piece_value(b) \/ b = "K"
                         => pin /\ ~skewer
                    /\ get_piece_value(f) > get_piece_value(b) /\ b # "K"
                         => skewer /\ ~pin
                    /\ ~(pin /\ skewer)

PriorityOrder ==
    <<"Gabel", "Fesselung", "Spiess", "Abzugsschach", "Doppelangriff",
      "Grundreihenmatt-Drohung", "Ersticktes Matt", "Linienoeffnung",
      "Qualitaetsopfer", "Rochade">>

\* the place of a tag in the priority order
priority(tag) == CHOOSE i \in 1..Len(PriorityOrder) : PriorityOrder[i] = tag

\* the detector of a tag, applied as _detect_tactical_patterns applies it
fires(tag) ==
    LET board == probe.in[1]
        move == probe.in[2]
    IN  CASE tag = "Gabel" -> detect_fork(AfterMove, move.to_square, Mover)
          [] tag = "Fesselung" -> detect_pin(AfterMove, move.to_square, Mover)
          [] tag = "Spiess" -> detect_skewer(AfterMove, move.to_square, Mover)
          [] tag = "Abzugsschach" -> detect_discovered_check(board, move, Mover)
          [] tag = "Doppelangriff" -> detect_double_attack(AfterMove, Mover)
          [] tag = "Grundreihenmatt-Drohung" ->
               detect_back_rank_mate_threat(AfterMove, opponent(Mover))
          [] tag = "Ersticktes Matt" ->
               detect_smothered_mate_threat(AfterMove, opponent(Mover))
          [] tag = "Linienoeffnung" -> detect_line_opening(board, AfterMove, move, Mover)
          [] tag = "Qualitaetsopfer" -> detect_exchange_sacrifice(board, move)
          [] tag = "Rochade" -> is_castling(board, move)

\* C18: the list of tags has no duplicates and follows the priority order fork,
\* pin, skewer, discovered check, double attack, back-rank mate threat, smothered
\* mate threat, line opening, exchange sacrifice, castling; a tag is in the list
\* exactly when its detector fires.
C18_TagList ==
    Probed("patterns") =>
        /\ \A i \in 1..Len(probe.out) : \E k \in 1..Len(PriorityOrder) :
             probe.out[i] = PriorityOrder[k]
        /\ \A i \in 1..Len(probe.out), j \in 1..Len(probe.out) :
             i < j => priority(probe.out[i]) < priority(probe.out[j])
        /\ \A k \in 1..Len(PriorityOrder) :
             Contains(probe.out, PriorityOrder[k]) <=> fires(PriorityOrder[k])

C18_Witness ==
    /\ Probed("patterns")
    /\ probe.in[2] = chess_move(4, 60)
    /\ piece_at(probe.in[1], 4) = [type |-> "R", color |-> "white"]
    /\ probe.out = <<"Gabel", "Spiess", "Abzugsschach", "Grundreihenmatt-Drohung",
                     "Linienoeffnung">>

\* the rays of the piece that has moved, when it is a bishop, a rook or a queen
SliderRays ==
    LET slider == piece_at(AfterMove, probe.in[2].to_square)
    IN  CASE slider.type = "B" -> Diagonals
          [] slider.type = "R" -> Lines
          [] slider.type = "Q" -> Diagonals \cup Lines
          [] OTHER -> {}

\* C22: for a moved bishop, rook or queen the pin tag is given exactly when, on
\* some ray of the piece, the first piece is an enemy piece and the next piece
\* behind it on that ray, at any distance up to the board edge, is an enemy king
\* or an enemy piece worth strictly more than the first: on files and diagonals
\* as on ranks, with or without empty squares between the two.
C22_PinAlongTheRay ==
    Probed("patterns") /\ SliderRays # {} =>
        (Contains(probe.out, "Fesselung")
            <=> \E p \in AlignedPairs :
                   \/ piece_at(AfterMove, p[2]).type = "K"
                   \/ get_piece_value(piece_at(AfterMove, p[2]).type)
                        > get_piece_value(piece_at(AfterMove, p[1]).type))

\* a square lies beyond the front square on the line from the attacker
Beyond(attacker_square, front_square, square) ==
    LET sign(x) == IF x > 0 THEN 1 ELSE IF x < 0 THEN 0 - 1 ELSE 0
        df == sign(square_file(front_square) - square_file(attacker_square))
        dr == sign(square_rank(front_square) - square_rank(attacker_square))
    IN  \E k \in 1..7 :
          /\ square_file(square) = square_file(front_square) + k * df
          /\ square_rank(square) = square_rank(front_square) + k * dr

\* C29: every square the pin and skewer scans of the moved piece examine behind a
\* front piece lies on the line through the attacker and the front piece, beyond
\* the front piece: the scan stops at the board edge and never goes on to a square
\* of another rank or file.
C29_ScanStaysOnTheRay ==
    Probed("patterns") /\ SliderRays # {} =>
        \A a \in attacks(AfterMove, probe.in[2].to_square) :
            LET direction == get_direction(probe.in[2].to_square, a)
            IN  /\ piece_at(AfterMove, a) # Empty
                /\ piece_at(AfterMove, a).color # Mover
                /\ direction # 0
                => \A s \in examined(AfterMove, a, a + direction, direction) :
                      Beyond(probe.in[2].to_square, a, s)

\* the king of the side that has not moved, and the pieces that give it check
DefendingKing == king(AfterMove, opponent(Mover))

Checkers == attackers(AfterMove, Mover, DefendingKing)

\* C23: the discovered-check tag is given exactly when, after the move, the
\* opponent's king is in check and the piece that has moved does not attack the
\* king's square from its destination; a rook, bishop or queen that gives check
\* itself gets no tag, wherever the king stands.
C23_DiscoveredCheck ==
    Probed("patterns") =>
        (Contains(probe.out, "Abzugsschach")
            <=> /\ is_check(AfterMove)
                /\ DefendingKing \notin attacks(AfterMove, probe.in[2].to_square))

\* every square next to the defending king holds a piece of its own colour, or,
\* when attacked squares count as closed too, is attacked by the mover
Boxed(or_attacked) ==
    /\ DefendingKing # NoSquare
    /\ \A s \in steps(DefendingKing, Diagonals \cup Lines) :
         \/ piece_at(AfterMove, s).color = opponent(Mover)
         \/ or_attacked /\ is_attacked_by(AfterMove, Mover, s)

\* C24: the back-rank tag is given exactly when the defending king stands on its
\* home rank, every square next to it holds a piece of its own colour or is
\* attacked by the opponent, and an enemy rook or queen attacks the king's
\* square; a check by another piece gets no tag while an enemy rook or queen
\* stands elsewhere.
C24_BackRankThreat ==
    Probed("patterns") =>
        (Contains(probe.out, "Grundreihenmatt-Drohung")
            <=> /\ Boxed(TRUE)
                /\ square_rank(DefendingKing) = IF Mover = "white" THEN 7 ELSE 0
                /\ \E s \in Checkers : piece_at(AfterMove, s).type \in {"R", "Q"})

\* C25: the smothered-mate tag is given exactly when every square next to the
\* defending king holds a piece of the king's colour, the king is in check and
\* the check is given by a knight; a check by another piece gets no tag, even
\* with an enemy knight on the board.
C25_SmotheredThreat ==
    Probed("patterns") =>
        /\ Contains(probe.out, "Ersticktes Matt")
             <=> /\ Boxed(FALSE)
                 /\ is_check(AfterMove)
                 /\ \E s \in Checkers : piece_at(AfterMove, s).type = "N"
        /\ Checkers # {} /\ (\A s \in Checkers : piece_at(AfterMove, s).type # "N")
             => ~Contains(probe.out, "Ersticktes Matt")

\* Ne5-g6 gives check to the king on h8 behind g8, g7 and h7
C25_Witness ==
    /\ Probed("patterns")
    /\ probe.in[2] = chess_move(36, 46)
    /\ Boxed(FALSE)
    /\ piece_at(AfterMove, 46) = [type |-> "N", color |-> "white"]
    /\ Checkers = {46}
    /\ Contains(probe.out, "Ersticktes Matt")

\* a rook gives check on the eighth rank while the white knight stands on e5
C25_OtherChecker ==
    /\ Probed("patterns")
    /\ piece_at(AfterMove, 36) = [type |-> "N", color |-> "white"]
    /\ Checkers # {}
    /\ \A s \in Checkers : piece_at(AfterMove, s).type = "R"
    /\ ~Contains(probe.out, "Ersticktes Matt")

(***************************************************************************)
(* Properties of the explanation (SpecReport).                             *)
(***************************************************************************)
LeadWordings == {"KRITISCH Matt in", "Koenig steht unsicher"}

CaptureWordings ==
    {"Gabel machen und gewinnen", "fesseln und dann gewinnen",
     "droht Grundreihenmatt, du verlierst", "verlierst du auf"}

ThreatWordings ==
    {"Gabel", "Fesselung", "Spiess", "Grundreihenmatt-Drohung", "Ersticktes Matt",
     "Abzugsschach", "Doppelangriff", "starke taktische Drohung"}

\* the sentence saying what goes wrong that the facts call for
WrongWordings(your_consequences) ==
    IF your_consequences.pieces_lost # <<>> THEN CaptureWordings
    ELSE IF your_consequences.opponent_threats # <<>> THEN ThreatWordings
    ELSE IF your_consequences.pieces_threatened # <<>>
    THEN {"steht ungedeckt und wird angegriffen"}
    ELSE {"schwaecht deine Stellung"}

MateOfPlayer(color, raw_before) ==
    IF raw_before.type # "mate" THEN 0
    ELSE IF color = "white" THEN raw_before.value ELSE 0 - raw_before.value

\* C27: the explanation starts with the missed-mate sentence exactly when the
\* oracle gives the analysed player, White or Black, a mate in N moves with
\* 0 < N <= 3 before the move and the move played is not the mating move; not
\* when the mate is the opponent's or the move played is the mate.
C27_MissedMateLead ==
    Probed("explanation_parts") =>
        LET f == probe.in[1] IN
        (probe.out[1].wording = "KRITISCH Matt in"
            <=> /\ MateOfPlayer(f.turn, f.raw_before) \in 1..3
                /\ f.player_move # f.best_move)

(***************************************************************************)
(* Move numbers of the records.                                            *)
(***************************************************************************)
\* the records made so far by the run have strictly increasing move numbers, each
\* the index of a ply already played on which the analysed player was to move
C28_RecordsInOrder ==
    /\ \A i \in 1..Len(run.errors), j \in 1..Len(run.errors) :
         i < j => run.errors[i].move_number < run.errors[j].move_number
    /\ \A i \in 1..Len(run.errors) :
         /\ run.errors[i].move_number \in 1..Len(run.board)
         /\ run.errors[i].move_number % 2 = IF run.player_color = "white" THEN 1 ELSE 0

\* C28: a record's move number is the 1-based index of its ply, odd for the
\* first mover and even for the second, and it is the count the early-phase rule
\* of the king-safety sentence is compared against: with castling rights, the king
\* on the e file, a move that does not castle and a best move that castles, the
\* sentence is given exactly for the records with move number <= 15, the records
\* of the opening bucket.
C28_MoveNumbers ==
    Probed("record_of_ply") =>
        \A i \in 1..Len(probe.out) :
            LET r == probe.out[i] IN
            /\ r.move_number = probe.in[2]
            /\ r.move_number % 2 = IF probe.in[1] = "white" THEN 1 ELSE 0
            /\ probe.in[3] /\ ~probe.in[4] =>
                 /\ r.parts[1].wording = "Koenig steht unsicher"
                      <=> r.move_number <= 15
                 /\ r.parts[1].wording = "Koenig steht unsicher"
                      <=> phase_of(r.move_number) = "opening"

(***************************************************************************)
(* Overlapping analyze_games requests of one user (SpecRace).  Each        *)
(* request runs in its own thread with its own db.session, its own locals  *)
(* and its own engine; req, session and run hold one entry per request.    *)
(* The Game and Error tables and app.py's analysis_progress dictionary are *)
(* shared, and both requests use the key of the one user.  A step is one   *)
(* access to the shared dictionary or database together with the local     *)
(* statements that follow it.  The engine does not fail, and analyze_game  *)
(* returns one record for every game it is given.                          *)
(***************************************************************************)
Requests == {"first", "second"}

NoSession == [errors |-> <<>>, analyzed |-> {}]

NoRequest ==
    [pc |-> "idle", batch |-> <<>>, idx |-> 0, analyzed_count |-> 0,
     total_errors |-> 0, response |-> "none"]

InitRace ==
    /\ \E n \in 1..MaxGames :
         games \in [1..n -> {row \in GameRows : row.plies = 1}]
    /\ dbErrors = <<>>
    /\ session = [r \in Requests |-> NoSession]
    /\ req = [r \in Requests |-> NoRequest]
    /\ run = [r \in Requests |-> NoRun]
    /\ sf = [position |-> <<>>, alive |-> FALSE]
    /\ oracle = [deterministic |-> TRUE, memo |-> <<>>]
    /\ traffic = {}
    /\ lost_in = 0
    /\ analysis_progress = NoProgress
    /\ probe = NoProbe

Private == <<sf, oracle, traffic, lost_in>>

\* lines 954-965: the query finds no unanalyzed game
RaceNothingToAnalyze(r) ==
    /\ req[r].pc = "idle"
    /\ Unanalyzed(games, 1) = <<>>
    /\ req' = [req EXCEPT ![r].pc = "done", ![r].response = "nothing"]
    /\ UNCHANGED <<games, dbErrors, session, run, analysis_progress, probe, Private>>

\* lines 954-975: the query finds the unanalyzed games
RaceStartRequest(r) ==
    /\ req[r].pc = "idle"
    /\ Unanalyzed(games, 1) # <<>>
    /\ req' = [req EXCEPT ![r].pc = "loop", ![r].batch = Unanalyzed(games, 1)]
    /\ UNCHANGED <<games, dbErrors, session, run, analysis_progress, probe, Private>>

\* lines 977-1002: analysis_progress[progress_key] = {...}, the colour is read
\* from the headers
RaceUpdateProgress(r) ==
    /\ req[r].pc = "loop"
    /\ req[r].idx < Len(req[r].batch)
    /\ analysis_progress' =
         ProgressAt(req[r].idx + 1, Len(req[r].batch), req[r].total_errors)
    /\ req' = [req EXCEPT ![r].idx = @ + 1, ![r].pc = "colour"]
    /\ UNCHANGED <<games, dbErrors, session, run, probe, Private>>

\* lines 1004-1012: the headers do not name the user: continue
RaceSkipGame(r) ==
    /\ req[r].pc = "colour"
    /\ games[req[r].batch[req[r].idx]].color = "none"
    /\ req' = [req EXCEPT ![r].pc = "loop"]
    /\ UNCHANGED <<games, dbErrors, session, run, analysis_progress, probe, Private>>

\* line 1015: analysis_progress[progress_key]['current_action'] = ...
RaceAnnounceAnalysis(r) ==
    /\ req[r].pc = "colour"
    /\ games[req[r].batch[req[r].idx]].color # "none"
    /\ analysis_progress.present
    /\ analysis_progress' =
         [analysis_progress EXCEPT !.current_action = "Stockfish analysiert Spiel"]
    /\ req' = [req EXCEPT ![r].pc = "analyse"]
    /\ UNCHANGED <<games, dbErrors, session, run, probe, Private>>

\* line 1018: errors = analyzer.analyze_game(game.pgn, player_color)
RaceAnalyzeGame(r) ==
    /\ req[r].pc = "analyse"
    /\ run' = [run EXCEPT ![r].errors = <<record_at(1, MISTAKE_THRESHOLD)>>,
                          ![r].player_color = games[req[r].batch[req[r].idx]].color]
    /\ req' = [req EXCEPT ![r].pc = "analysed"]
    /\ UNCHANGED <<games, dbErrors, session, analysis_progress, probe, Private>>

\* lines 1021-1045: the progress says 'Speichere ...', the records are added to
\* the session of the request and the game is marked
RaceSaveErrors(r) ==
    /\ req[r].pc = "analysed"
    /\ analysis_progress.present
    /\ analysis_progress' =
         [analysis_progress EXCEPT !.current_action = "Speichere Fehler"]
    /\ LET game_id == req[r].batch[req[r].idx] IN
         session' = [session EXCEPT
                       ![r].errors = @ \o [i \in 1..Len(run[r].errors) |->
                                             error_row(game_id, run[r].errors[i])],
                       ![r].analyzed = @ \cup {game_id}]
    /\ req' = [req EXCEPT ![r].pc = "saved",
                          ![r].analyzed_count = @ + 1,
                          ![r].total_errors = @ + Len(run[r].errors)]
    /\ UNCHANGED <<games, dbErrors, run, probe, Private>>

\* line 1046: analysis_progress[progress_key]['errors_found'] = total_errors
RaceErrorsFound(r) ==
    /\ req[r].pc = "saved"
    /\ analysis_progress.present
    /\ analysis_progress' =
         [analysis_progress EXCEPT !.errors_found = req[r].total_errors]
    /\ req' = [req EXCEPT ![r].pc = "loop"]
    /\ UNCHANGED <<games, dbErrors, session, run, probe, Private>>

\* lines 1015, 1021, 1046 and 1053 when the entry is not in the dictionary:
\* KeyError, caught by `except Exception` (lines 1068-1076): rollback and the
\* 500 answer
RaceKeyError(r) ==
    /\ \/ /\ req[r].pc = "colour"
          /\ games[req[r].batch[req[r].idx]].color # "none"
       \/ req[r].pc \in {"analysed", "saved", "delete"}
    /\ ~analysis_progress.present
    /\ session' = [session EXCEPT ![r] = NoSession]
    /\ req' = [req EXCEPT ![r].pc = "failed", ![r].response = "error"]
    /\ UNCHANGED <<games, dbErrors, run, analysis_progress, probe, Private>>

\* line 1049: db.session.commit() writes the rows and the flags of the session
RaceCommit(r) ==
    /\ req[r].pc = "loop"
    /\ req[r].idx = Len(req[r].batch)
    /\ games' = [g \in DOMAIN games |->
                   IF g \in session[r].analyzed
                   THEN [games[g] EXCEPT !.analyzed = TRUE]
                   ELSE games[g]]
    /\ dbErrors' = dbErrors \o session[r].errors
    /\ session' = [session EXCEPT ![r] = NoSession]
    /\ req' = [req EXCEPT ![r].pc = "clear"]
    /\ UNCHANGED <<run, analysis_progress, probe, Private>>

\* line 1052: `if progress_key in analysis_progress`; without the entry the
\* request answers with success (lines 1055-1060)
RaceLookUpProgress(r) ==
    /\ req[r].pc = "clear"
    /\ req' = [req EXCEPT
                 ![r].pc = IF analysis_progress.present THEN "delete" ELSE "done",
                 ![r].response = IF analysis_progress.present THEN @ ELSE "ok"]
    /\ UNCHANGED <<games, dbErrors, session, run, analysis_progress, probe, Private>>

\* line 1053: del analysis_progress[progress_key], then lines 1055-1060
RaceClearProgress(r) ==
    /\ req[r].pc = "delete"
    /\ analysis_progress.present
    /\ analysis_progress' = NoProgress
    /\ req' = [req EXCEPT ![r].pc = "done", ![r].response = "ok"]
    /\ UNCHANGED <<games, dbErrors, session, run, probe, Private>>

\* analysis_progress_endpoint: analysis_progress.get(progress_key, {...})
ReadProgress ==
    /\ \E r \in Requests : req[r].pc \notin {"idle", "done", "failed"}
    /\ probe' = [fn |-> "analysis_progress", in |-> <<>>,
                 out |-> <<IF analysis_progress.present THEN analysis_progress
                           ELSE [NoProgress EXCEPT !.current_action = "Warte..."]>>,
                 done |-> TRUE]
    /\ UNCHANGED <<games, dbErrors, session, req, run, analysis_progress, Private>>

NextRace ==
    \/ \E r \in Requests :
        \/ RaceNothingToAnalyze(r)
        \/ RaceStartRequest(r)
        \/ RaceUpdateProgress(r)
        \/ RaceSkipGame(r)
        \/ RaceAnnounceAnalysis(r)
        \/ RaceAnalyzeGame(r)
        \/ RaceSaveErrors(r)
        \/ RaceErrorsFound(r)
        \/ RaceKeyError(r)
        \/ RaceCommit(r)
        \/ RaceLookUpProgress(r)
        \/ RaceClearProgress(r)
    \/ ReadProgress

SpecRace == InitRace /\ [][NextRace]_vars

(***************************************************************************)
(* Properties of overlapping requests (SpecRace).                          *)
(***************************************************************************)
\* C21: the progress dictionary never changes the outcome of a run: whatever
\* the other run and the readers of the progress do, also when both runs use the
\* same key, no run fails because of an entry written or removed by the other;
\* every run that found games ends with success.
C21_ProgressIsAdvisory ==
    \A r \in Requests : req[r].response # "error"

\* C30: the error records of a game are persisted at most once: the Error table
\* never holds two rows for the same game with the same record, however the
\* requests overlap.
C30_RecordsPersistedOnce ==
    \A i \in 1..Len(dbErrors), j \in 1..Len(dbErrors) :
        i # j => dbErrors[i] # dbErrors[j]

====
